---- MODULE Spec2Model ----
(***************************************************************************)
(* Model of dirpx.dev/derrors: the segment trie (mapper/internal/          *)
(* segmenttrie) and the immutable status mapper (package mapper).          *)
(*                                                                         *)
(* Go strings are modelled as sequences of one-character strings, so that  *)
(* the byte-level scanning of Trie.Match and the conversions of            *)
(* reason.Normalize are computed as the code computes them.                *)
(***************************************************************************)
EXTENDS Integers, Sequences, FiniteSets, TLC

VARIABLES
    trie,       \* the segment trie under test
    inserted,   \* history: pattern text -> value of its last successful Insert
    errs,       \* the Error values the program holds, each with what it held when made
    heap,       \* the Go heap: reference -> map or trie object
    mapper,     \* the mapper the caller holds (NilMapper before New)
    built,      \* history: the options the mapper was built from
    snapshots,  \* the results of the calls of New made so far, in order
    readers,    \* the goroutines that call into the mapper: their positions
    frames,     \* the local variables of the calls of Match in progress
    ret         \* the value returned by the last call

vars == <<trie, inserted, errs, heap, mapper, built, snapshots, readers, frames, ret>>

----------------------------------------------------------------------------
(* Characters and strings                                                  *)

\* The characters of a string are ASCII characters. The bytes of 'a'..'z',
\* of 'A'..'Z' and of '0'..'9':
LowerChars ==
    {"a", "b", "c", "d", "e", "f", "g", "h", "i", "j", "k", "l", "m",
     "n", "o", "p", "q", "r", "s", "t", "u", "v", "w", "x", "y", "z"}
UpperChars ==
    {"A", "B", "C", "D", "E", "F", "G", "H", "I", "J", "K", "L", "M",
     "N", "O", "P", "Q", "R", "S", "T", "U", "V", "W", "X", "Y", "Z"}
DigitChars == {"0", "1", "2", "3", "4", "5", "6", "7", "8", "9"}

IsLower(c) == c \in LowerChars
IsDigit(c) == c \in DigitChars

\* Go indexes strings from 0.
At(s, i) == s[i + 1]

\* The empty string.
Empty == <<>>

\* Go's s[lo:hi].
Slice(s, lo, hi) == SubSeq(s, lo + 1, hi)

\* strings.Split(s, "."): always at least one element, "" splits to [""].
RECURSIVE Split(_)
Split(s) ==
    IF \A i \in 1..Len(s) : s[i] # "."
    THEN <<s>>
    ELSE LET k == CHOOSE i \in 1..Len(s) :
                      s[i] = "." /\ \A j \in 1..(i - 1) : s[j] # "."
         IN  <<SubSeq(s, 1, k - 1)>> \o Split(SubSeq(s, k + 1, Len(s)))

\* strings.Join(segs, "."), used to write down the inputs.
RECURSIVE Join(_)
Join(segs) ==
    IF Len(segs) = 0 THEN Empty
    ELSE IF Len(segs) = 1 THEN segs[1]
    ELSE segs[1] \o <<".">> \o Join(Tail(segs))

Star == <<"*">>

----------------------------------------------------------------------------
(* segmenttrie: Trie, New, Insert                                          *)

\* The zero value of the trie's value type.
Zero == 0

\* A node as segmenttrie.New allocates it. A trie is a function from node
\* positions (the sequence of segments leading to the node, <<>> being the
\* root) to node records; a node's children map has key s exactly when the
\* position extended by s is in the domain.
NewNode == [hasVal |-> FALSE, val |-> Zero, pattern |-> Empty]

TrieNew == (<<>> :> NewNode)

HasChild(t, n, s) == Append(n, s) \in DOMAIN t

\* Mutant of validSegment: the first character is checked like the others.
validSegmentAnyFirst(seg, allowWildcard) ==
    IF seg = Empty THEN FALSE
    ELSE IF allowWildcard /\ seg = Star THEN TRUE
    ELSE \A i \in 1..Len(seg) :
             IsLower(seg[i]) \/ IsDigit(seg[i]) \/ seg[i] = "_"

validSegment(seg, allowWildcard) ==
    IF seg = Empty THEN FALSE
    ELSE IF allowWildcard /\ seg = Star THEN TRUE
    ELSE IF ~IsLower(seg[1]) THEN FALSE
    ELSE \A i \in 2..Len(seg) :
             IsLower(seg[i]) \/ IsDigit(seg[i]) \/ seg[i] = "_"

\* Returns [segs, ok].
splitAndValidate(s, allowWildcard) ==
    IF s = Empty THEN [segs |-> <<>>, ok |-> TRUE]
    ELSE LET segs == Split(s)
         IN  IF \E i \in 1..Len(segs) : ~validSegment(segs[i], allowWildcard)
             THEN [segs |-> <<>>, ok |-> FALSE]
             ELSE [segs |-> segs, ok |-> TRUE]

\* Mutant of InsertNodes: a node created on the way carries a value.
InsertNodesValued(t, segs) ==
    LET missing == { SubSeq(segs, 1, k) : k \in 1..Len(segs) } \ DOMAIN t
    IN  [n \in DOMAIN t \cup missing |->
            IF n \in DOMAIN t THEN t[n] ELSE [NewNode EXCEPT !.hasVal = TRUE]]

\* Mutant of InsertNodes: every node on the way is made anew, the existing
\* ones included.
InsertNodesFresh(t, segs) ==
    LET way == { SubSeq(segs, 1, k) : k \in 1..Len(segs) }
    IN  [n \in DOMAIN t \cup way |-> IF n \in way THEN NewNode ELSE t[n]]

\* The loop of Insert that walks/creates the nodes of segs below the root.
InsertNodes(t, segs) ==
    LET missing == { SubSeq(segs, 1, k) : k \in 1..Len(segs) } \ DOMAIN t
    IN  [n \in DOMAIN t \cup missing |-> IF n \in DOMAIN t THEN t[n] ELSE NewNode]

\* The pattern text Insert leaves on the terminal node.
InsertPattern(old, prefix) == IF old = Empty THEN prefix ELSE old

\* Mutant of Insert: the walk does not advance, and the value is left on
\* the root.
InsertAtRoot(t, prefix, val) ==
    LET sv == splitAndValidate(prefix, TRUE)
    IN  IF ~sv.ok \/ Len(sv.segs) = 0
        THEN [err |-> TRUE, trie |-> t]
        ELSE IF \A i \in 1..Len(sv.segs) : sv.segs[i] = Star
        THEN [err |-> TRUE, trie |-> t]
        ELSE LET t1 == InsertNodes(t, sv.segs)
             IN  [err  |-> FALSE,
                  trie |-> [t1 EXCEPT ![<<>>] =
                               [hasVal  |-> TRUE,
                                val     |-> val,
                                pattern |-> InsertPattern(t1[<<>>].pattern, prefix)]]]

\* Mutant of Insert: a pattern that already carries a value is rejected.
InsertRejectRepeat(t, prefix, val) ==
    LET sv == splitAndValidate(prefix, TRUE)
    IN  IF ~sv.ok \/ Len(sv.segs) = 0
        THEN [err |-> TRUE, trie |-> t]
        ELSE IF \A i \in 1..Len(sv.segs) : sv.segs[i] = Star
        THEN [err |-> TRUE, trie |-> t]
        ELSE IF sv.segs \in DOMAIN t /\ t[sv.segs].hasVal
        THEN [err |-> TRUE, trie |-> t]
        ELSE LET t1  == InsertNodes(t, sv.segs)
                 cur == sv.segs
             IN  [err  |-> FALSE,
                  trie |-> [t1 EXCEPT ![cur] =
                               [hasVal  |-> TRUE,
                                val     |-> val,
                                pattern |-> InsertPattern(t1[cur].pattern, prefix)]]]

\* Insert returns [err, trie]: err is TRUE for ErrInvalidPrefix, and trie is
\* the receiver after the call.
Insert(t, prefix, val) ==
    LET sv == splitAndValidate(prefix, TRUE)
    IN  IF ~sv.ok \/ Len(sv.segs) = 0
        THEN [err |-> TRUE, trie |-> t]
        ELSE IF \A i \in 1..Len(sv.segs) : sv.segs[i] = Star
        THEN [err |-> TRUE, trie |-> t]
        ELSE LET t1  == InsertNodes(t, sv.segs)
                 cur == sv.segs
             IN  [err  |-> FALSE,
                  trie |-> [t1 EXCEPT ![cur] =
                               [hasVal  |-> TRUE,
                                val     |-> val,
                                pattern |-> InsertPattern(t1[cur].pattern, prefix)]]]

----------------------------------------------------------------------------
(* segmenttrie: Match, MatchWithPattern                                    *)

IsSegChar(c) == IsLower(c) \/ IsDigit(c) \/ c = "_"

\* Mutant of scanSegment: the segment ends after its first character.
scanSegmentOneChar(reason, i) == i

\* Mutant of scanSegment: an invalid character ends the segment like a dot.
RECURSIVE scanSegmentStopAtInvalid(_, _)
scanSegmentStopAtInvalid(reason, i) ==
    IF i >= Len(reason) THEN i
    ELSE IF At(reason, i) = "." THEN i
    ELSE IF ~IsSegChar(At(reason, i)) THEN i
    ELSE scanSegmentStopAtInvalid(reason, i + 1)

\* The inner scanning loop of dfs: from byte offset i, returns the offset of
\* the next '.' or len(reason), or -1 when an invalid character is met.
RECURSIVE scanSegment(_, _)
scanSegment(reason, i) ==
    IF i >= Len(reason) THEN i
    ELSE IF At(reason, i) = "." THEN i
    ELSE IF ~IsSegChar(At(reason, i)) THEN -1
    ELSE scanSegment(reason, i + 1)

\* "skip '.' if present"
skipDot(reason, i) ==
    IF i < Len(reason) /\ At(reason, i) = "." THEN i + 1 ELSE i

\* Mutant of Better: a later node of the same depth replaces the best match.
BetterOrEqual(depth, bestDepth) == depth >= bestDepth

\* Mutant of Better: the first value-carrying node met is kept.
BetterFirst(depth, bestDepth) == bestDepth < 0

\* Whether a node visited at this depth replaces the best match so far.
Better(depth, bestDepth) == depth > bestDepth

\* Mutant of wildcardNextOff: the wildcard branch consumes no segment.
wildcardNextOffZero(reason, off, i) == off

\* The offset the wildcard branch of Match continues from, the segment
\* [off, i) having been parsed.
wildcardNextOff(reason, off, i) == skipDot(reason, i)

\* Mutant of dfs: the wildcard branch is explored before the exact branch.
RECURSIVE dfsWildcardFirst(_, _, _, _, _, _)
dfsWildcardFirst(t, reason, n, off, depth, best) ==
    LET b1 == IF t[n].hasVal /\ Better(depth, best.depth)
              THEN [depth |-> depth, val |-> t[n].val]
              ELSE best
    IN  IF off >= Len(reason) THEN b1
        ELSE IF ~IsLower(At(reason, off)) THEN b1
        ELSE LET i == scanSegment(reason, off + 1)
             IN  IF i < 0 THEN b1
                 ELSE LET seg     == Slice(reason, off, i)
                          nextOff == skipDot(reason, i)
                          b2 == IF HasChild(t, n, Star)
                                THEN dfsWildcardFirst(t, reason, Append(n, Star),
                                         wildcardNextOff(reason, off, i), depth + 1, b1)
                                ELSE b1
                      IN  IF HasChild(t, n, seg)
                          THEN dfsWildcardFirst(t, reason, Append(n, seg), nextOff,
                                                depth + 1, b2)
                          ELSE b2

\* The closure dfs of Match. best is the pair (bestDepth, bestVal) the
\* closure updates; the result is that pair after the call.
RECURSIVE dfs(_, _, _, _, _, _)
dfs(t, reason, n, off, depth, best) ==
    LET b1 == IF t[n].hasVal /\ Better(depth, best.depth)
              THEN [depth |-> depth, val |-> t[n].val]
              ELSE best
    IN  IF off >= Len(reason) THEN b1
        ELSE IF ~IsLower(At(reason, off)) THEN b1
        ELSE LET i == scanSegment(reason, off + 1)
             IN  IF i < 0 THEN b1
                 ELSE LET seg     == Slice(reason, off, i)
                          nextOff == skipDot(reason, i)
                          b2 == IF HasChild(t, n, seg)
                                THEN dfs(t, reason, Append(n, seg), nextOff, depth + 1, b1)
                                ELSE b1
                      IN  IF HasChild(t, n, Star)
                          THEN dfs(t, reason, Append(n, Star),
                                   wildcardNextOff(reason, off, i), depth + 1, b2)
                          ELSE b2

\* The nodes the closure dfs of Match is invoked on during one traversal,
\* in the order of the invocations.
RECURSIVE dfsVisits(_, _, _, _, _)
dfsVisits(t, reason, n, off, depth) ==
    IF off >= Len(reason) THEN <<n>>
    ELSE IF ~IsLower(At(reason, off)) THEN <<n>>
    ELSE LET i == scanSegment(reason, off + 1)
         IN  IF i < 0 THEN <<n>>
             ELSE LET seg     == Slice(reason, off, i)
                      nextOff == skipDot(reason, i)
                  IN  <<n>>
                      \o (IF HasChild(t, n, seg)
                          THEN dfsVisits(t, reason, Append(n, seg), nextOff, depth + 1)
                          ELSE <<>>)
                      \o (IF HasChild(t, n, Star)
                          THEN dfsVisits(t, reason, Append(n, Star),
                                         wildcardNextOff(reason, off, i), depth + 1)
                          ELSE <<>>)

\* Match returns [val, found].
Match(t, reason) ==
    LET best == dfs(t, reason, <<>>, 0, 0, [depth |-> -1, val |-> Zero])
    IN  IF best.depth < 0
        THEN [val |-> Zero, found |-> FALSE]
        ELSE [val |-> best.val, found |-> TRUE]

\* Mutant of BetterWithPattern: a later node of the same depth replaces the
\* best match.
BetterWithPatternOrEqual(depth, bestDepth) == depth >= bestDepth

\* Whether a node visited at this depth replaces the best match so far, in
\* MatchWithPattern.
BetterWithPattern(depth, bestDepth) == depth > bestDepth

\* Mutant of dfsWithPattern: the wildcard branch is explored only when the
\* node has no exact child for the segment.
RECURSIVE dfsWithPatternExactOnly(_, _, _, _, _, _)
dfsWithPatternExactOnly(t, reason, n, off, depth, best) ==
    LET b1 == IF t[n].hasVal /\ BetterWithPattern(depth, best.depth)
              THEN [depth |-> depth, val |-> t[n].val, pat |-> t[n].pattern]
              ELSE best
    IN  IF off >= Len(reason) THEN b1
        ELSE IF ~IsLower(At(reason, off)) THEN b1
        ELSE LET i == scanSegment(reason, off + 1)
             IN  IF i < 0 THEN b1
                 ELSE LET seg     == Slice(reason, off, i)
                          nextOff == skipDot(reason, i)
                      IN  IF HasChild(t, n, seg)
                          THEN dfsWithPatternExactOnly(t, reason, Append(n, seg),
                                                       nextOff, depth + 1, b1)
                          ELSE IF HasChild(t, n, Star)
                          THEN dfsWithPatternExactOnly(t, reason, Append(n, Star),
                                                       nextOff, depth + 1, b1)
                          ELSE b1

\* The closure dfs of MatchWithPattern; best is (bestDepth, bestVal, bestPat).
RECURSIVE dfsWithPattern(_, _, _, _, _, _)
dfsWithPattern(t, reason, n, off, depth, best) ==
    LET b1 == IF t[n].hasVal /\ BetterWithPattern(depth, best.depth)
              THEN [depth |-> depth, val |-> t[n].val, pat |-> t[n].pattern]
              ELSE best
    IN  IF off >= Len(reason) THEN b1
        ELSE IF ~IsLower(At(reason, off)) THEN b1
        ELSE LET i == scanSegment(reason, off + 1)
             IN  IF i < 0 THEN b1
                 ELSE LET seg     == Slice(reason, off, i)
                          nextOff == skipDot(reason, i)
                          b2 == IF HasChild(t, n, seg)
                                THEN dfsWithPattern(t, reason, Append(n, seg), nextOff, depth + 1, b1)
                                ELSE b1
                      IN  IF HasChild(t, n, Star)
                          THEN dfsWithPattern(t, reason, Append(n, Star), nextOff, depth + 1, b2)
                          ELSE b2

\* MatchWithPattern returns [val, found, pat].
MatchWithPattern(t, reason) ==
    LET best == dfsWithPattern(t, reason, <<>>, 0, 0,
                               [depth |-> -1, val |-> Zero, pat |-> Empty])
    IN  IF best.depth < 0
        THEN [val |-> Zero, found |-> FALSE, pat |-> Empty]
        ELSE [val |-> best.val, found |-> TRUE, pat |-> best.pat]

----------------------------------------------------------------------------
(* reason.Normalize and the prefix validation of package mapper            *)

\* White space as strings.TrimSpace sees it in ASCII: the blank, \t, \n, \r,
\* \f and the vertical tab (written as the character itself, the last one).
IsSpace(c) == c \in {" ", "\t", "\n", "\r", "\f", ""}

RECURSIVE TrimLeft(_)
TrimLeft(s) ==
    IF s # Empty /\ IsSpace(s[1]) THEN TrimLeft(Tail(s)) ELSE s

RECURSIVE TrimRight(_)
TrimRight(s) ==
    IF s # Empty /\ IsSpace(s[Len(s)])
    THEN TrimRight(SubSeq(s, 1, Len(s) - 1))
    ELSE s

TrimSpace(s) == TrimRight(TrimLeft(s))

\* The lower-case mapping of strings.ToLower on one character.
LowerOf(c) ==
    IF c \notin UpperChars THEN c
    ELSE
    CASE c = "A" -> "a"
      [] c = "B" -> "b"
      [] c = "C" -> "c"
      [] c = "D" -> "d"
      [] c = "E" -> "e"
      [] c = "F" -> "f"
      [] c = "G" -> "g"
      [] c = "H" -> "h"
      [] c = "I" -> "i"
      [] c = "J" -> "j"
      [] c = "K" -> "k"
      [] c = "L" -> "l"
      [] c = "M" -> "m"
      [] c = "N" -> "n"
      [] c = "O" -> "o"
      [] c = "P" -> "p"
      [] c = "Q" -> "q"
      [] c = "R" -> "r"
      [] c = "S" -> "s"
      [] c = "T" -> "t"
      [] c = "U" -> "u"
      [] c = "V" -> "v"
      [] c = "W" -> "w"
      [] c = "X" -> "x"
      [] c = "Y" -> "y"
      [] c = "Z" -> "z"

ToLower(s) == [i \in 1..Len(s) |-> LowerOf(s[i])]

ReplaceAll(s, old, new) == [i \in 1..Len(s) |-> IF s[i] = old THEN new ELSE s[i]]

\* Mutant of Normalize: the text is not lower-cased.
NormalizeNoLower(s) ==
    LET t == TrimSpace(s)
    IN  IF t = Empty THEN Empty
        ELSE ReplaceAll(ReplaceAll(t, "/", "."), "-", "_")

Normalize(s) ==
    LET t == TrimSpace(s)
    IN  IF t = Empty THEN Empty
        ELSE ReplaceAll(ReplaceAll(ToLower(t), "/", "."), "-", "_")

\* Mutant of validPrefixSegment: an empty segment is let through.
validPrefixSegmentAllowEmpty(seg) ==
    IF seg = Empty THEN TRUE
    ELSE IF seg = Star THEN TRUE
    ELSE IF ~IsLower(seg[1]) THEN FALSE
    ELSE \A i \in 2..Len(seg) :
             IsLower(seg[i]) \/ IsDigit(seg[i]) \/ seg[i] = "_"

validPrefixSegment(seg) ==
    IF seg = Empty THEN FALSE
    ELSE IF seg = Star THEN TRUE
    ELSE IF ~IsLower(seg[1]) THEN FALSE
    ELSE \A i \in 2..Len(seg) :
             IsLower(seg[i]) \/ IsDigit(seg[i]) \/ seg[i] = "_"

NoErr == "nil"

\* Returns [p, err]; err is NoErr or the text of the error.
normalizeAndValidatePrefix(raw) ==
    LET p    == Normalize(raw)
        segs == Split(p)
        bad  == { i \in 1..Len(segs) : ~validPrefixSegment(segs[i]) }
    IN  IF p = Empty THEN [p |-> Empty, err |-> "empty prefix"]
        ELSE IF bad # {}
        THEN [p |-> Empty, err |-> "invalid segment"]
        ELSE IF \A i \in 1..Len(segs) : segs[i] = Star
        THEN [p |-> Empty, err |-> "prefix cannot consist of '*' only"]
        ELSE [p |-> p, err |-> NoErr]

----------------------------------------------------------------------------
(* The heap: Go maps and tries are objects reached through references      *)

\* The nil reference.
Nil == 0

\* The package-level variables defaultHTTP and defaultGRPC.
DefaultHTTPAddr == 1
DefaultGRPCAddr == 2

defaultHTTP ==
    [c \in {"internal", "unavailable", "not_ready", "draining", "overloaded",
            "dependency_failed", "timeout", "canceled", "invalid", "missing",
            "unsupported", "expired", "deprecation_rejected", "too_early",
            "not_found", "gone", "already_exists", "conflict", "stale_version",
            "precondition_failed", "unauthenticated", "invalid_credentials",
            "token_invalid", "token_expired", "token_revoked", "session_expired",
            "permission_denied", "throttled", "rate_limited", "quota_exceeded"} |->
        CASE c = "internal" -> 500
          [] c \in {"unavailable", "not_ready", "draining", "overloaded"} -> 503
          [] c = "dependency_failed" -> 502
          [] c = "timeout" -> 504
          [] c = "canceled" -> 408
          [] c \in {"invalid", "missing", "unsupported", "expired",
                    "deprecation_rejected"} -> 400
          [] c = "too_early" -> 425
          [] c = "not_found" -> 404
          [] c = "gone" -> 410
          [] c \in {"already_exists", "conflict", "stale_version"} -> 409
          [] c = "precondition_failed" -> 412
          [] c \in {"unauthenticated", "invalid_credentials", "token_invalid",
                    "token_expired", "token_revoked", "session_expired"} -> 401
          [] c = "permission_denied" -> 403
          [] c \in {"throttled", "rate_limited", "quota_exceeded"} -> 429]

defaultGRPC ==
    [c \in DOMAIN defaultHTTP |->
        CASE c = "internal" -> 13
          [] c \in {"invalid", "missing", "unsupported"} -> 3
          [] c \in {"precondition_failed", "dependency_failed", "expired",
                    "too_early", "deprecation_rejected"} -> 9
          [] c \in {"not_found", "gone"} -> 5
          [] c = "already_exists" -> 6
          [] c \in {"conflict", "stale_version"} -> 10
          [] c \in {"unauthenticated", "invalid_credentials", "token_invalid",
                    "token_expired", "token_revoked", "session_expired"} -> 16
          [] c = "permission_denied" -> 7
          [] c \in {"unavailable", "not_ready", "draining", "overloaded"} -> 14
          [] c = "timeout" -> 4
          [] c = "canceled" -> 1
          [] c \in {"throttled", "rate_limited", "quota_exceeded"} -> 8]

\* http.StatusInternalServerError and codes.Internal.
StatusInternalServerError == 500
CodesInternal == 13

\* A Go map object and a trie object.
MapObj(f)  == [kind |-> "map", m |-> f]
TrieObj(t) == [kind |-> "trie", t |-> t]

EmptyMap == <<>>

\* The heap when the package is loaded.
InitHeap ==
    (DefaultHTTPAddr :> MapObj(defaultHTTP)) @@ (DefaultGRPCAddr :> MapObj(defaultGRPC))

Max(S) == CHOOSE x \in S : \A y \in S : y <= x

\* make(...) / New[T](): a fresh object. Returns [addr, heap].
Alloc(h, obj) ==
    LET a == Max(DOMAIN h) + 1
    IN  [addr |-> a, heap |-> h @@ (a :> obj)]

\* v, ok := m[k] on the map behind reference a; a nil map has no keys.
MapHas(h, a, k) == a # Nil /\ k \in DOMAIN h[a].m
MapGet(h, a, k) == h[a].m[k]
MapLen(h, a)    == IF a = Nil THEN 0 ELSE Cardinality(DOMAIN h[a].m)

\* m[k] = v on the map behind reference a.
\* Mutant of MapPut: a key already in the map keeps its value.
MapPutKeepFirst(h, a, k, v) ==
    [h EXCEPT ![a].m = [x \in DOMAIN h[a].m \cup {k} |->
                           IF x \in DOMAIN h[a].m THEN h[a].m[x] ELSE v]]

MapPut(h, a, k, v) ==
    [h EXCEPT ![a].m = [x \in DOMAIN h[a].m \cup {k} |->
                           IF x = k THEN v ELSE h[a].m[x]]]

----------------------------------------------------------------------------
(* package mapper: builder and options                                     *)

\* newBuilder: six fresh maps and the two hard fallbacks. Returns [b, heap].
newBuilder(h) ==
    LET base == Max(DOMAIN h)
    IN  [b |-> [httpDefaults |-> base + 1, grpcDefaults |-> base + 2,
                httpOverride |-> base + 3, grpcOverride |-> base + 4,
                httpPrefixes |-> base + 5, grpcPrefixes |-> base + 6,
                fallbackHTTP |-> StatusInternalServerError,
                fallbackGRPC |-> CodesInternal],
         heap |-> h @@ [a \in (base + 1) .. (base + 6) |-> MapObj(EmptyMap)]]

\* Option values: the closures the With... constructors return, each
\* holding the arguments it captured.
WithHTTPDefault(c, http)  == [kind |-> "HTTPDefault",  c |-> c, prefix |-> Empty, val |-> http]
WithGRPCDefault(c, grpc)  == [kind |-> "GRPCDefault",  c |-> c, prefix |-> Empty, val |-> grpc]
WithHTTPOverride(c, http) == [kind |-> "HTTPOverride", c |-> c, prefix |-> Empty, val |-> http]
WithGRPCOverride(c, grpc) == [kind |-> "GRPCOverride", c |-> c, prefix |-> Empty, val |-> grpc]
WithHTTPPrefix(c, prefix, http) == [kind |-> "HTTPPrefix", c |-> c, prefix |-> prefix, val |-> http]
WithGRPCPrefix(c, prefix, grpc) == [kind |-> "GRPCPrefix", c |-> c, prefix |-> prefix, val |-> grpc]

prefixRule(prefix, val) == [prefix |-> prefix, val |-> val]

\* Mutant of AppendRule: the rule replaces the rules the code had.
AppendRuleReplace(h, a, c, rule) == MapPut(h, a, c, <<rule>>)

\* b.xPrefixes[c] = append(b.xPrefixes[c], rule)
AppendRule(h, a, c, rule) ==
    MapPut(h, a, c, (IF MapHas(h, a, c) THEN MapGet(h, a, c) ELSE <<>>) \o <<rule>>)

\* Mutant of ApplyOption: an HTTP override is written to the gRPC overrides
\* as well.
ApplyOptionBothFamilies(h, b, opt) ==
    CASE opt.kind = "HTTPDefault"  -> MapPut(h, b.httpDefaults, opt.c, opt.val)
      [] opt.kind = "GRPCDefault"  -> MapPut(h, b.grpcDefaults, opt.c, opt.val)
      [] opt.kind = "HTTPOverride" ->
            MapPut(MapPut(h, b.httpOverride, opt.c, opt.val),
                   b.grpcOverride, opt.c, opt.val)
      [] opt.kind = "GRPCOverride" -> MapPut(h, b.grpcOverride, opt.c, opt.val)
      [] opt.kind = "HTTPPrefix"   ->
            AppendRule(h, b.httpPrefixes, opt.c, prefixRule(opt.prefix, opt.val))
      [] opt.kind = "GRPCPrefix"   ->
            AppendRule(h, b.grpcPrefixes, opt.c, prefixRule(opt.prefix, opt.val))

\* opt(b): the body of the closure, run on builder b. Returns the heap.
ApplyOption(h, b, opt) ==
    CASE opt.kind = "HTTPDefault"  -> MapPut(h, b.httpDefaults, opt.c, opt.val)
      [] opt.kind = "GRPCDefault"  -> MapPut(h, b.grpcDefaults, opt.c, opt.val)
      [] opt.kind = "HTTPOverride" -> MapPut(h, b.httpOverride, opt.c, opt.val)
      [] opt.kind = "GRPCOverride" -> MapPut(h, b.grpcOverride, opt.c, opt.val)
      [] opt.kind = "HTTPPrefix"   ->
            AppendRule(h, b.httpPrefixes, opt.c, prefixRule(opt.prefix, opt.val))
      [] opt.kind = "GRPCPrefix"   ->
            AppendRule(h, b.grpcPrefixes, opt.c, prefixRule(opt.prefix, opt.val))

\* for _, opt := range opts { opt(b) }, bh being the builder and the heap.
\* Returns [b, heap].
RECURSIVE ApplyOptions(_, _)
ApplyOptions(bh, opts) ==
    IF opts = <<>> THEN bh
    ELSE ApplyOptions([b |-> bh.b, heap |-> ApplyOption(bh.heap, bh.b, Head(opts))],
                      Tail(opts))

----------------------------------------------------------------------------
(* package mapper: New                                                     *)

\* codes.Code(v): the conversion of an int to the uint32 type codes.Code.
\* It leaves a value in 0 .. 2^32 - 1 unchanged; the values of the model
\* are all in that range.
ToGRPCCode(v) == v

\* The value a trie of the family stores for a rule value.
RuleVal(family, v) == IF family = "gRPC" THEN ToGRPCCode(v) ELSE v

NilErr == [kind |-> "nil"]

\* The mapper New returns together with an error.
NilMapper == [nil |-> TRUE]

\* Mutant of seedHTTPDefaults: the builder takes the package-level table
\* itself as its map of defaults.
seedHTTPDefaultsShared(bh) ==
    [b |-> [bh.b EXCEPT !.httpDefaults = DefaultHTTPAddr], heap |-> bh.heap]

\* for k, v := range defaultHTTP { b.httpDefaults[k] = v }: the entries of
\* the package-level table are written into the builder's own map, bh being
\* the builder and the heap. Returns [b, heap].
seedHTTPDefaults(bh) ==
    [b |-> bh.b,
     heap |-> [bh.heap EXCEPT ![bh.b.httpDefaults].m =
                  [k \in DOMAIN bh.heap[bh.b.httpDefaults].m
                            \cup DOMAIN bh.heap[DefaultHTTPAddr].m |->
                      IF k \in DOMAIN bh.heap[DefaultHTTPAddr].m
                      THEN bh.heap[DefaultHTTPAddr].m[k]
                      ELSE bh.heap[bh.b.httpDefaults].m[k]]]]

\* Mutant of seedGRPCDefaults: the builder is not seeded with the gRPC table.
seedGRPCDefaultsSkip(bh) == bh

\* for k, v := range defaultGRPC { b.grpcDefaults[k] = int(v) }
seedGRPCDefaults(bh) ==
    [b |-> bh.b,
     heap |-> [bh.heap EXCEPT ![bh.b.grpcDefaults].m =
                  [k \in DOMAIN bh.heap[bh.b.grpcDefaults].m
                            \cup DOMAIN bh.heap[DefaultGRPCAddr].m |->
                      IF k \in DOMAIN bh.heap[DefaultGRPCAddr].m
                      THEN bh.heap[DefaultGRPCAddr].m[k]
                      ELSE bh.heap[bh.b.grpcDefaults].m[k]]]]

\* Mutant of insertRules: a rule whose prefix is rejected is skipped.
RECURSIVE insertRulesSkipInvalid(_, _, _, _, _)
insertRulesSkipInvalid(h, t, rules, c, family) ==
    IF rules = <<>> THEN [err |-> NilErr, heap |-> h]
    ELSE LET r  == Head(rules)
             nv == normalizeAndValidatePrefix(r.prefix)
             in == Insert(h[t].t, nv.p, RuleVal(family, r.val))
         IN  IF nv.err # NoErr \/ in.err
             THEN insertRulesSkipInvalid(h, t, Tail(rules), c, family)
             ELSE insertRulesSkipInvalid([h EXCEPT ![t].t = in.trie], t,
                                         Tail(rules), c, family)

\* The inner loop of New over the rules of one code: normalize and validate
\* each prefix, then insert it into the trie behind reference t.
\* Returns [err, heap].
RECURSIVE insertRules(_, _, _, _, _)
insertRules(h, t, rules, c, family) ==
    IF rules = <<>> THEN [err |-> NilErr, heap |-> h]
    ELSE LET r  == Head(rules)
             nv == normalizeAndValidatePrefix(r.prefix)
             in == Insert(h[t].t, nv.p, RuleVal(family, r.val))
         IN  IF nv.err # NoErr
             THEN [err |-> [kind |-> "invalid reason-prefix", family |-> family,
                            prefix |-> r.prefix, code |-> c, cause |-> nv.err],
                   heap |-> h]
             ELSE IF in.err
             THEN [err |-> [kind |-> "cannot insert prefix", family |-> family,
                            prefix |-> nv.p, code |-> c,
                            cause |-> "segmenttrie: invalid prefix"],
                   heap |-> h]
             ELSE insertRules([h EXCEPT ![t].t = in.trie], t, Tail(rules), c, family)

\* The outer loop of New over the codes of b.xPrefixes, visited in the order
\* the map iteration yields them; tm is the local map of tries.
\* Returns [err, heap].
RECURSIVE buildTries(_, _, _, _, _)
buildTries(h, tm, src, order, family) ==
    IF order = <<>> THEN [err |-> NilErr, heap |-> h]
    ELSE LET c     == Head(order)
             rules == MapGet(h, src, c)
             ta    == Alloc(h, TrieObj(TrieNew))
             ir    == insertRules(ta.heap, ta.addr, rules, c, family)
         IN  IF Len(rules) = 0
             THEN buildTries(h, tm, src, Tail(order), family)
             ELSE IF ir.err # NilErr THEN ir
             ELSE buildTries(MapPut(ir.heap, tm, c, ta.addr), tm, src,
                             Tail(order), family)

\* The six freeze helpers: nil for an empty source, else a fresh map with
\* the entries of the source. Each returns [addr, heap].
freezeHTTPDefaults(h, src) ==
    IF MapLen(h, src) = 0 THEN [addr |-> Nil, heap |-> h]
    ELSE Alloc(h, MapObj([k \in DOMAIN h[src].m |-> h[src].m[k]]))

freezeGRPCDefaults(h, src) ==
    IF MapLen(h, src) = 0 THEN [addr |-> Nil, heap |-> h]
    ELSE Alloc(h, MapObj([k \in DOMAIN h[src].m |-> ToGRPCCode(h[src].m[k])]))

freezeHTTPOverrides(h, src) ==
    IF MapLen(h, src) = 0 THEN [addr |-> Nil, heap |-> h]
    ELSE Alloc(h, MapObj([k \in DOMAIN h[src].m |-> h[src].m[k]]))

freezeGRPCOverrides(h, src) ==
    IF MapLen(h, src) = 0 THEN [addr |-> Nil, heap |-> h]
    ELSE Alloc(h, MapObj([k \in DOMAIN h[src].m |-> ToGRPCCode(h[src].m[k])]))

freezeHTTPTrie(h, src) ==
    IF MapLen(h, src) = 0 THEN [addr |-> Nil, heap |-> h]
    ELSE Alloc(h, MapObj([k \in DOMAIN h[src].m |-> h[src].m[k]]))

freezeGRPCTrie(h, src) ==
    IF MapLen(h, src) = 0 THEN [addr |-> Nil, heap |-> h]
    ELSE Alloc(h, MapObj([k \in DOMAIN h[src].m |-> h[src].m[k]]))

\* The orders in which a range over the map behind reference a can yield
\* its keys.
Perms(S) == { f \in [1..Cardinality(S) -> S] : \A i, j \in 1..Cardinality(S) : f[i] = f[j] => i = j }
RangeOrders(h, a) == Perms(DOMAIN h[a].m)

\* The builder of New after the options ran. Returns [b, heap].
builderOf(h, opts) ==
    ApplyOptions(seedGRPCDefaults(seedHTTPDefaults(newBuilder(h))), opts)

\* Steps (3) and (4) of New: the tries of one family are built into the
\* local map tmap just made, the range over src yielding its keys in the
\* given order. Returns [err, heap, tm].
NewTries(tmap, src, order, family) ==
    LET r == buildTries(tmap.heap, tmap.addr, src, order, family)
    IN  [err |-> r.err, heap |-> r.heap, tm |-> tmap.addr]

\* Step (5) of New: everything is frozen into the snapshot.
NewFreeze(b, ht, gt, h) ==
    LET f1  == freezeHTTPDefaults(h, b.httpDefaults)
        f2  == freezeGRPCDefaults(f1.heap, b.grpcDefaults)
        f3  == freezeHTTPOverrides(f2.heap, b.httpOverride)
        f4  == freezeGRPCOverrides(f3.heap, b.grpcOverride)
        f5  == freezeHTTPTrie(f4.heap, ht)
        f6  == freezeGRPCTrie(f5.heap, gt)
    IN  [m |-> [httpDefault  |-> f1.addr, grpcDefault  |-> f2.addr,
                httpOverride |-> f3.addr, grpcOverride |-> f4.addr,
                httpTrie     |-> f5.addr, grpcTrie     |-> f6.addr,
                fallbackHTTP |-> b.fallbackHTTP,
                fallbackGRPC |-> b.fallbackGRPC],
         err |-> NilErr, heap |-> f6.heap]

\* New after step (4), gb being what the gRPC tries gave.
NewAfterGRPC(b, ht, gb) ==
    IF gb.err # NilErr THEN [m |-> NilMapper, err |-> gb.err, heap |-> gb.heap]
    ELSE NewFreeze(b, ht, gb.tm, gb.heap)

\* New after step (3), hb being what the HTTP tries gave.
NewAfterHTTP(b, hb, ordG) ==
    IF hb.err # NilErr THEN [m |-> NilMapper, err |-> hb.err, heap |-> hb.heap]
    ELSE NewAfterGRPC(b, hb.tm,
                      NewTries(Alloc(hb.heap, MapObj(EmptyMap)),
                               b.grpcPrefixes, ordG, "gRPC"))

\* New after steps (0), (1) and (2), bo being the builder and the heap.
NewFrom(bo, ordH, ordG) ==
    NewAfterHTTP(bo.b,
                 NewTries(Alloc(bo.heap, MapObj(EmptyMap)),
                          bo.b.httpPrefixes, ordH, "HTTP"),
                 ordG)

\* New(opts...), the range over b.httpPrefixes yielding its keys in order
\* ordH and the range over b.grpcPrefixes in order ordG.
\* Returns [m, err, heap].
New(h, opts, ordH, ordG) == NewFrom(builderOf(h, opts), ordH, ordG)

\* The objects a mapper reaches: its six maps and the tries they hold.
MapperRefs(h, m) ==
    IF m = NilMapper THEN {}
    ELSE LET maps == {m.httpDefault, m.grpcDefault, m.httpOverride,
                      m.grpcOverride, m.httpTrie, m.grpcTrie} \ {Nil}
             tms  == {m.httpTrie, m.grpcTrie} \ {Nil}
         IN  maps \cup UNION { { h[a].m[c] : c \in DOMAIN h[a].m } : a \in tms }

\* Garbage collection: what is reachable from the package-level tables and
\* from the mappers in ms stays.
Collect(h, ms) ==
    LET live == {DefaultHTTPAddr, DefaultGRPCAddr}
                    \cup UNION { MapperRefs(h, m) : m \in ms }
    IN  [a \in live |-> h[a]]

----------------------------------------------------------------------------
(* package mapper: HTTPStatus, GRPCStatus, Status, Explain                 *)

\* Mutant of HTTPStatus: the prefix tier is consulted before the override.
HTTPStatusPrefixFirst(h, m, c, r) ==
    IF /\ MapHas(h, m.httpTrie, c)
       /\ MapGet(h, m.httpTrie, c) # Nil
       /\ Match(h[MapGet(h, m.httpTrie, c)].t, r).found
    THEN Match(h[MapGet(h, m.httpTrie, c)].t, r).val
    ELSE IF MapHas(h, m.httpOverride, c) THEN MapGet(h, m.httpOverride, c)
    ELSE IF MapHas(h, m.httpDefault, c) THEN MapGet(h, m.httpDefault, c)
    ELSE 500

HTTPStatus(h, m, c, r) ==
    IF MapHas(h, m.httpOverride, c) THEN MapGet(h, m.httpOverride, c)
    ELSE IF /\ MapHas(h, m.httpTrie, c)
            /\ MapGet(h, m.httpTrie, c) # Nil
            /\ Match(h[MapGet(h, m.httpTrie, c)].t, r).found
    THEN Match(h[MapGet(h, m.httpTrie, c)].t, r).val
    ELSE IF MapHas(h, m.httpDefault, c) THEN MapGet(h, m.httpDefault, c)
    ELSE 500

\* Mutant of GRPCStatus: without a default the zero value is returned.
GRPCStatusNoFallback(h, m, c, r) ==
    IF MapHas(h, m.grpcOverride, c) THEN MapGet(h, m.grpcOverride, c)
    ELSE IF /\ MapHas(h, m.grpcTrie, c)
            /\ MapGet(h, m.grpcTrie, c) # Nil
            /\ Match(h[MapGet(h, m.grpcTrie, c)].t, r).found
    THEN Match(h[MapGet(h, m.grpcTrie, c)].t, r).val
    ELSE IF MapHas(h, m.grpcDefault, c) THEN MapGet(h, m.grpcDefault, c)
    ELSE Zero

GRPCStatus(h, m, c, r) ==
    IF MapHas(h, m.grpcOverride, c) THEN MapGet(h, m.grpcOverride, c)
    ELSE IF /\ MapHas(h, m.grpcTrie, c)
            /\ MapGet(h, m.grpcTrie, c) # Nil
            /\ Match(h[MapGet(h, m.grpcTrie, c)].t, r).found
    THEN Match(h[MapGet(h, m.grpcTrie, c)].t, r).val
    ELSE IF MapHas(h, m.grpcDefault, c) THEN MapGet(h, m.grpcDefault, c)
    ELSE CodesInternal

Status(h, m, c, r) ==
    [HTTP |-> HTTPStatus(h, m, c, r), GRPC |-> GRPCStatus(h, m, c, r)]

\* strings.ToUpper(v.String()) of a codes.Code.
GRPCName(v) ==
    CASE v = 0  -> "OK"
      [] v = 1  -> "CANCELED"
      [] v = 2  -> "UNKNOWN"
      [] v = 3  -> "INVALIDARGUMENT"
      [] v = 4  -> "DEADLINEEXCEEDED"
      [] v = 5  -> "NOTFOUND"
      [] v = 6  -> "ALREADYEXISTS"
      [] v = 7  -> "PERMISSIONDENIED"
      [] v = 8  -> "RESOURCEEXHAUSTED"
      [] v = 9  -> "FAILEDPRECONDITION"
      [] v = 10 -> "ABORTED"
      [] v = 11 -> "OUTOFRANGE"
      [] v = 12 -> "UNIMPLEMENTED"
      [] v = 13 -> "INTERNAL"
      [] v = 14 -> "UNAVAILABLE"
      [] v = 15 -> "DATALOSS"
      [] v = 16 -> "UNAUTHENTICATED"
      [] OTHER  -> "CODE(N)"

\* A formatted line is the sequence of the pieces fmt.Sprintf writes: the
\* text up to "source=", the source, and then the formatted arguments.
\* explainHTTP returns [source, line].
explainHTTP(h, m, c, r) ==
    IF MapHas(h, m.httpOverride, c)
    THEN [source |-> "override",
          line |-> <<"http: ", "source=override", " -> ", MapGet(h, m.httpOverride, c)>>]
    ELSE IF /\ MapHas(h, m.httpTrie, c)
            /\ MapGet(h, m.httpTrie, c) # Nil
            /\ MatchWithPattern(h[MapGet(h, m.httpTrie, c)].t, r).found
    THEN LET mw == MatchWithPattern(h[MapGet(h, m.httpTrie, c)].t, r)
         IN  [source |-> "prefix",
              line |-> <<"http: ", "source=prefix", " pattern=", mw.pat, " -> ", mw.val>>]
    ELSE IF MapHas(h, m.httpDefault, c)
    THEN [source |-> "default",
          line |-> <<"http: ", "source=default", " -> ", MapGet(h, m.httpDefault, c)>>]
    ELSE [source |-> "fallback",
          line |-> <<"http ", "source=fallback", " -> ", m.fallbackHTTP>>]

\* explainGRPC returns [source, line].
explainGRPC(h, m, c, r) ==
    IF MapHas(h, m.grpcOverride, c)
    THEN LET v == MapGet(h, m.grpcOverride, c)
         IN  [source |-> "override",
              line |-> <<"grpc: ", "source=override", " -> ", GRPCName(v), v>>]
    ELSE IF /\ MapHas(h, m.grpcTrie, c)
            /\ MapGet(h, m.grpcTrie, c) # Nil
            /\ MatchWithPattern(h[MapGet(h, m.grpcTrie, c)].t, r).found
    THEN LET mw == MatchWithPattern(h[MapGet(h, m.grpcTrie, c)].t, r)
         IN  [source |-> "prefix",
              line |-> <<"grpc: ", "source=prefix", " pattern=", mw.pat, " -> ",
                         GRPCName(mw.val), mw.val>>]
    ELSE IF MapHas(h, m.grpcDefault, c)
    THEN LET v == MapGet(h, m.grpcDefault, c)
         IN  [source |-> "default",
              line |-> <<"grpc: ", "source=default", " -> ", GRPCName(v), v>>]
    ELSE [source |-> "fallback",
          line |-> <<"grpc: ", "source=fallback", " -> ",
                     GRPCName(m.fallbackGRPC), m.fallbackGRPC>>]

KnownSources == {"override", "prefix", "default", "fallback"}

\* Explain returns the lines of its text: the header, the HTTP line and the
\* gRPC line.
Explain(h, m, c, r) ==
    LET eh == explainHTTP(h, m, c, r)
        eg == explainGRPC(h, m, c, r)
    IN  << <<"code=", c, " reason=", r>>,
           IF eh.source \in KnownSources THEN eh.line ELSE <<"http:  ", "source=unknown">>,
           IF eg.source \in KnownSources THEN eg.line ELSE <<"grpc:  ", "source=unknown">> >>

----------------------------------------------------------------------------
(* package derrors: Error and its mutators                                 *)

\* A nil error value.
NilCause == "nil"

\* An Error struct on the heap; Details is a reference to a map, or Nil.
ErrorObj(c, r, msg, details, cause) ==
    [kind |-> "error", Code |-> c, Reason |-> r, Message |-> msg,
     Details |-> details, Cause |-> cause]

\* m[k] = v on the contents of a map.
WithKey(f, k, v) == [x \in DOMAIN f \cup {k} |-> IF x = k THEN v ELSE f[x]]

\* for k, v := range kv { m[k] = v } on the contents of a map.
WithKeys(f, kv) ==
    [x \in DOMAIN f \cup DOMAIN kv |-> IF x \in DOMAIN kv THEN kv[x] ELSE f[x]]

\* A copy of the struct behind e with its Details set to a fresh map of
\* contents f. Returns [addr, heap].
CopyWithDetails(m, e) ==
    Alloc(m.heap, [m.heap[e] EXCEPT !.Details = m.addr])

\* Each mutator returns [addr, heap]: the reference it returns and the heap
\* after the call.
WithReason(h, e, r) == Alloc(h, [h[e] EXCEPT !.Reason = r])

WithMessage(h, e, msg) == Alloc(h, [h[e] EXCEPT !.Message = msg])

\* Mutant of WithDetail: the key is written into the map the receiver holds.
WithDetailInPlace(h, e, k, v) ==
    IF MapLen(h, h[e].Details) = 0
    THEN CopyWithDetails(Alloc(h, MapObj(WithKey(EmptyMap, k, v))), e)
    ELSE Alloc(MapPut(h, h[e].Details, k, v), h[e])

WithDetail(h, e, k, v) ==
    IF MapLen(h, h[e].Details) = 0
    THEN CopyWithDetails(Alloc(h, MapObj(WithKey(EmptyMap, k, v))), e)
    ELSE CopyWithDetails(Alloc(h, MapObj(WithKey(h[h[e].Details].m, k, v))), e)

WithDetails(h, e, kv) ==
    IF DOMAIN kv = {} THEN [addr |-> e, heap |-> h]
    ELSE IF MapLen(h, h[e].Details) = 0
    THEN CopyWithDetails(Alloc(h, MapObj(WithKeys(EmptyMap, kv))), e)
    ELSE CopyWithDetails(Alloc(h, MapObj(WithKeys(h[h[e].Details].m, kv))), e)

WithCause(h, e, err) ==
    IF err = NilCause THEN [addr |-> e, heap |-> h]
    ELSE Alloc(h, [h[e] EXCEPT !.Cause = err])

\* The options of E: each constructor returns a function from an Error to
\* an Error; the value here names the mutator the function calls and holds
\* what the function has captured.
WithReasonOption(r)    == [op |-> "WithReason", r |-> r]
WithDetailOption(k, v)  == [op |-> "WithDetail", k |-> k, v |-> v]
WithDetailsOption(kv)  == [op |-> "WithDetails", kv |-> kv]
WithCauseOption(err)   == [op |-> "WithCause", err |-> err]

\* opt(e): the call of an option on the Error behind e. Returns [addr, heap].
CallOption(h, opt, e) ==
    CASE opt.op = "WithReason"  -> WithReason(h, e, opt.r)
      [] opt.op = "WithDetail"  -> WithDetail(h, e, opt.k, opt.v)
      [] opt.op = "WithDetails" -> WithDetails(h, e, opt.kv)
      [] opt.op = "WithCause"   -> WithCause(h, e, opt.err)

\* for _, opt := range opts { e = opt(e) }, from the Error and the heap in r.
RECURSIVE RunOptions(_, _)
RunOptions(r, opts) ==
    IF opts = <<>> THEN r
    ELSE RunOptions(CallOption(r.heap, opts[1], r.addr), Tail(opts))

\* E(c, msg, opts...). Returns [addr, heap]: the Error the last option
\* returned, and the heap, which also holds the Errors made on the way.
E(h, c, msg, opts) ==
    RunOptions(Alloc(h, ErrorObj(c, Empty, msg, Nil, NilCause)), opts)

\* What the Error behind reference a holds: its fields and the key/value
\* contents of its Details.
View(h, a) ==
    [Code |-> h[a].Code, Reason |-> h[a].Reason, Message |-> h[a].Message,
     Cause |-> h[a].Cause,
     Details |-> IF h[a].Details = Nil THEN EmptyMap ELSE h[h[a].Details].m]

----------------------------------------------------------------------------
(* Bounds and inputs of the trie specification                             *)

MaxPatSegs  == 2    \* segments of a generated pattern
MaxPathSegs == 3    \* segments of a generated path
MaxPatterns == 2    \* value-carrying nodes a trie may reach

SeqsUpTo(S, n) == UNION { [1..k -> S] : k \in 0..n }

PatToks  == { <<"a">>, Star }
PathToks == { <<"a">>, <<"b">> }

\* Patterns handed to Insert: every pattern of up to MaxPatSegs segments over
\* one literal and the wildcard, two patterns with a longer literal, and
\* malformed ones.
Patterns ==
    { Join(ss) : ss \in SeqsUpTo(PatToks, MaxPatSegs) \ {<<>>} }
    \cup { <<"a", "b">>, <<"a", ".", "a", "b">> }
    \cup { Empty, <<"a", ".", ".", "a">>, <<"a", ".">>, <<".", "a">>,
           <<"A">>, <<"a", ".", "1">>, <<"a", "-">>, <<"a", "*">> }

\* Paths handed to Match: every path of up to MaxPathSegs segments over two
\* literals, paths with a longer or a shorter literal, and malformed ones.
Paths ==
    { Join(ss) : ss \in SeqsUpTo(PathToks, MaxPathSegs) }
    \cup { <<"a", "b">>, <<"a", ".", "a", "b">>, <<"a", ".", "a", "1">> }
    \cup { <<"a", ".", ".", "a">>, <<"a", ".", "B">>, <<"a", ".">>,
           <<"A", ".", "a">>, <<"a", ".", "a", "-", ".", "a">>, <<"a", ".", "*">> }

Vals == {1, 2}

NoRet == [op |-> "none"]

NoBuild == [done |-> FALSE]

ValuedNodes(t) == { n \in DOMAIN t : t[n].hasVal }

----------------------------------------------------------------------------
(* The trie specification: one trie, calls of its three methods            *)

InitTrie ==
    /\ trie = TrieNew
    /\ inserted = <<>>
    /\ errs = <<>>
    /\ heap = InitHeap
    /\ mapper = NilMapper
    /\ built = NoBuild
    /\ snapshots = <<>>
    /\ readers = <<>>
    /\ frames = <<>>
    /\ ret = NoRet

\* Insert(prefix, val) on the trie, as long as the trie stays within max
\* value-carrying nodes.
DoInsertUpTo(prefix, val, max) ==
    LET r == Insert(trie, prefix, val)
    IN  /\ ret = NoRet
        /\ Cardinality(ValuedNodes(r.trie)) <= max
        /\ trie' = r.trie
        /\ inserted' = IF r.err THEN inserted
                       ELSE [q \in DOMAIN inserted \cup {prefix} |->
                                IF q = prefix THEN val ELSE inserted[q]]
        /\ ret' = [op |-> "Insert", arg |-> prefix, val |-> val, err |-> r.err,
                   before |-> trie]
        /\ UNCHANGED <<errs, heap, mapper, built, snapshots, readers, frames>>

DoInsert(prefix, val) == DoInsertUpTo(prefix, val, MaxPatterns)

DoMatch(reason) ==
    LET r == Match(trie, reason)
    IN  /\ ret = NoRet
        /\ ret' = [op |-> "Match", arg |-> reason, val |-> r.val, found |-> r.found]
        /\ UNCHANGED <<trie, inserted, errs, heap, mapper, built, snapshots, readers, frames>>

DoMatchWithPattern(reason) ==
    LET r == MatchWithPattern(trie, reason)
    IN  /\ ret = NoRet
        /\ ret' = [op |-> "MatchWithPattern", arg |-> reason, val |-> r.val,
                   found |-> r.found, pat |-> r.pat]
        /\ UNCHANGED <<trie, inserted, errs, heap, mapper, built, snapshots, readers, frames>>

TrieInsert == ret = NoRet /\ \E p \in Patterns, v \in Vals : DoInsert(p, v)
TrieMatch == ret = NoRet /\ \E r \in Paths : DoMatch(r)
TrieMatchWithPattern == ret = NoRet /\ \E r \in Paths : DoMatchWithPattern(r)

\* The caller takes the returned value; the next call follows.
Consume ==
    /\ ret # NoRet
    /\ ret' = NoRet
    /\ UNCHANGED <<trie, inserted, errs, heap, mapper, built, snapshots, readers, frames>>

NextTrie == TrieInsert \/ TrieMatch \/ TrieMatchWithPattern \/ Consume

SpecTrie == InitTrie /\ [][NextTrie]_vars

----------------------------------------------------------------------------
(* The traversal specification: a trie of a few short patterns, and Match  *)
(* observed with the nodes its traversal visits                            *)

MaxWorkPatterns == 3    \* value-carrying nodes of the trie

WorkPatterns == { Join(ss) : ss \in SeqsUpTo(PatToks, 2) \ {<<>>} }

InitWork == InitTrie

WorkInsert ==
    /\ ret = NoRet
    /\ \E p \in WorkPatterns, v \in Vals : DoInsertUpTo(p, v, MaxWorkPatterns)

DoWorkMatch(reason) ==
    LET r == Match(trie, reason)
    IN  /\ ret = NoRet
        /\ ret' = [op |-> "Match", arg |-> reason, val |-> r.val, found |-> r.found,
                   visited |-> dfsVisits(trie, reason, <<>>, 0, 0)]
        /\ UNCHANGED <<trie, inserted, errs, heap, mapper, built, snapshots, readers, frames>>

WorkMatch == ret = NoRet /\ \E r \in Paths : DoWorkMatch(r)

NextWork == WorkInsert \/ WorkMatch \/ Consume

SpecWork == InitWork /\ [][NextWork]_vars

----------------------------------------------------------------------------
(* Bounds and inputs of the mapper specification                           *)

MaxOpts == 2    \* options handed to one New

OptCodes    == {"unavailable", "custom"}
LookupCodes == {"unavailable", "custom", "invalid"}

\* Raw prefixes of the prefix options. The first four are valid once
\* normalized ("A" and "a" normalize to the same text), the last four are
\* not: wildcards only, an empty segment, white space only, and a segment
\* that starts with a digit.
RawPrefixSeq ==
    << <<"a">>, <<"A">>, <<"a", ".", "*">>,
       <<"\t", "A", "/", "Z", "-", "9", " ">>,
       <<"*">>, <<"a", ".", ".", "a">>, <<"\t", " ">>, <<"a", ".", "9", "Z">> >>

RawIndex(raw) == CHOOSE i \in 1..Len(RawPrefixSeq) : RawPrefixSeq[i] = raw

\* Each prefix option carries a value of its own.
HTTPPrefixVal(raw) == 590 + RawIndex(raw)
GRPCPrefixVal(raw) == RawIndex(raw)

PrefixInputs ==
    { <<"unavailable", RawPrefixSeq[i]>> : i \in 1..Len(RawPrefixSeq) }
    \cup { <<"custom", <<"a">> >>, <<"custom", <<"*">> >> }

Options ==
    { WithHTTPDefault("custom", 408), WithHTTPDefault("custom", 409),
      WithHTTPDefault("unavailable", 502),
      WithGRPCDefault("custom", 11), WithGRPCDefault("unavailable", 12) }
    \cup { WithHTTPOverride(c, 418) : c \in OptCodes }
    \cup { WithHTTPOverride("custom", 419) }
    \cup { WithGRPCOverride(c, 10) : c \in OptCodes }
    \cup { WithHTTPPrefix(x[1], x[2], HTTPPrefixVal(x[2])) : x \in PrefixInputs }
    \cup { WithGRPCPrefix(x[1], x[2], GRPCPrefixVal(x[2])) : x \in PrefixInputs }

OptionLists == SeqsUpTo(Options, MaxOpts)

\* Reasons handed to the lookups: empty, matching, unmatched, and one with a
\* malformed segment.
Reasons ==
    { Empty, <<"a">>, <<"a", ".", "b">>, <<"a", ".", "z", "_", "9">>, <<"b">>,
      <<"a", ".", "B">> }

----------------------------------------------------------------------------
(* The mapper specification: one New, then lookups on its mapper           *)

Init ==
    /\ trie = TrieNew
    /\ inserted = <<>>
    /\ errs = <<>>
    /\ heap = InitHeap
    /\ mapper = NilMapper
    /\ built = NoBuild
    /\ snapshots = <<>>
    /\ readers = <<>>
    /\ frames = <<>>
    /\ ret = NoRet

\* The caller receives r, the mapper and the error of New(opts...).
ReturnNew(opts, r) ==
    /\ mapper' = r.m
    /\ heap' = Collect(r.heap, {r.m})
    /\ built' = [done |-> TRUE, opts |-> opts]
    /\ ret' = [op |-> "New", opts |-> opts, m |-> r.m, err |-> r.err]

DoNew(opts, ordH, ordG) ==
    /\ ret = NoRet
    /\ built = NoBuild
    /\ ReturnNew(opts, New(heap, opts, ordH, ordG))
    /\ UNCHANGED <<trie, inserted, errs, snapshots, readers, frames>>

DoHTTPStatus(c, r) ==
    /\ ret = NoRet
    /\ mapper # NilMapper
    /\ ret' = [op |-> "HTTPStatus", c |-> c, r |-> r, val |-> HTTPStatus(heap, mapper, c, r)]
    /\ UNCHANGED <<trie, inserted, errs, heap, mapper, built, snapshots, readers, frames>>

DoGRPCStatus(c, r) ==
    /\ ret = NoRet
    /\ mapper # NilMapper
    /\ ret' = [op |-> "GRPCStatus", c |-> c, r |-> r, val |-> GRPCStatus(heap, mapper, c, r)]
    /\ UNCHANGED <<trie, inserted, errs, heap, mapper, built, snapshots, readers, frames>>

DoStatus(c, r) ==
    /\ ret = NoRet
    /\ mapper # NilMapper
    /\ ret' = [op |-> "Status", c |-> c, r |-> r, val |-> Status(heap, mapper, c, r)]
    /\ UNCHANGED <<trie, inserted, errs, heap, mapper, built, snapshots, readers, frames>>

DoExplain(c, r) ==
    /\ ret = NoRet
    /\ mapper # NilMapper
    /\ ret' = [op |-> "Explain", c |-> c, r |-> r, val |-> Explain(heap, mapper, c, r)]
    /\ UNCHANGED <<trie, inserted, errs, heap, mapper, built, snapshots, readers, frames>>

\* The orders the two map iterations of New can take for these options.
OrdersOf(opts, field) ==
    LET bo == builderOf(InitHeap, opts)
    IN  RangeOrders(bo.heap, bo.b[field])

CallNew ==
    /\ ret = NoRet
    /\ built = NoBuild
    /\ \E opts \in OptionLists :
           \E ordH \in OrdersOf(opts, "httpPrefixes"),
              ordG \in OrdersOf(opts, "grpcPrefixes") :
               DoNew(opts, ordH, ordG)

CallHTTPStatus == ret = NoRet /\ \E c \in LookupCodes, r \in Reasons : DoHTTPStatus(c, r)
CallGRPCStatus == ret = NoRet /\ \E c \in LookupCodes, r \in Reasons : DoGRPCStatus(c, r)
CallStatus     == ret = NoRet /\ \E c \in LookupCodes, r \in Reasons : DoStatus(c, r)
CallExplain    == ret = NoRet /\ \E c \in LookupCodes, r \in Reasons : DoExplain(c, r)

Next == CallNew \/ CallHTTPStatus \/ CallGRPCStatus \/ CallStatus \/ CallExplain \/ Consume

Spec == Init /\ [][Next]_vars

----------------------------------------------------------------------------
(* The build specification: one call of New, observed when it returns      *)

\* The directives handed to New: defaults and overrides in both families,
\* two values for one default, prefix rules that normalize to the same
\* text, and rules that the build rejects, for two codes of one family.
NewOptions ==
    { WithHTTPDefault("custom", 408), WithHTTPDefault("custom", 409),
      WithGRPCDefault("unavailable", 12),
      WithHTTPOverride("custom", 418), WithGRPCOverride("unavailable", 10) }
    \cup { WithHTTPPrefix("unavailable", RawPrefixSeq[i], HTTPPrefixVal(RawPrefixSeq[i])) :
               i \in 1..5 }
    \cup { WithHTTPPrefix("custom", <<"*">>, HTTPPrefixVal(<<"*">>)) }
    \cup { WithGRPCPrefix("unavailable", x, GRPCPrefixVal(x)) :
               x \in { <<"a">>, <<"a", ".", "*">>, <<"a", ".", ".", "a">> } }
    \cup { WithGRPCPrefix("custom", <<"a">>, GRPCPrefixVal(<<"a">>)) }

NewOptionLists == SeqsUpTo(NewOptions, MaxOpts)

InitNew == Init

CallNewOnce ==
    /\ ret = NoRet
    /\ built = NoBuild
    /\ \E opts \in NewOptionLists :
           \E ordH \in OrdersOf(opts, "httpPrefixes"),
              ordG \in OrdersOf(opts, "grpcPrefixes") :
               DoNew(opts, ordH, ordG)

NextNew == CallNewOnce \/ Consume

SpecNew == InitNew /\ [][NextNew]_vars

----------------------------------------------------------------------------
(* The builds specification: several calls of New in one process, and     *)
(* lookups on every mapper they returned                                   *)

MaxBuilds    == 2    \* calls of New
MaxBuildOpts == 1    \* options of one call of New

BuildOptions ==
    { WithHTTPDefault("unavailable", 502),
      WithGRPCOverride("unavailable", 10),
      WithHTTPPrefix("unavailable", <<"a">>, HTTPPrefixVal(<<"a">>)),
      WithGRPCPrefix("custom", <<"*">>, GRPCPrefixVal(<<"*">>)) }

BuildOptionLists == SeqsUpTo(BuildOptions, MaxBuildOpts)

BuildCodes == {"unavailable", "custom"}
BuildReasons == { <<"a", ".", "b">>, <<"b">> }

\* The mappers the process holds.
Held == { snapshots[k].m : k \in 1..Len(snapshots) }

InitBuilds ==
    /\ trie = TrieNew
    /\ inserted = <<>>
    /\ errs = <<>>
    /\ heap = InitHeap
    /\ mapper = NilMapper
    /\ built = NoBuild
    /\ snapshots = <<>>
    /\ readers = <<>>
    /\ frames = <<>>
    /\ ret = NoRet

\* One more call of New; the mappers returned before stay in use.
\* The caller keeps r, the mapper and the error of New(opts...), next to
\* the mappers it holds.
KeepNew(opts, r) ==
    /\ snapshots' = Append(snapshots, [m |-> r.m, err |-> r.err, opts |-> opts])
    /\ heap' = Collect(r.heap, Held \cup {r.m})
    /\ ret' = [op |-> "New", opts |-> opts, m |-> r.m, err |-> r.err]

BuildNew(opts, ordH, ordG) ==
    /\ ret = NoRet
    /\ Len(snapshots) < MaxBuilds
    /\ KeepNew(opts, New(heap, opts, ordH, ordG))
    /\ UNCHANGED <<trie, inserted, errs, mapper, built, readers, frames>>

SnapStatus(k, c, r) ==
    /\ ret = NoRet
    /\ snapshots[k].m # NilMapper
    /\ ret' = [op |-> "Status", k |-> k, c |-> c, r |-> r,
               val |-> Status(heap, snapshots[k].m, c, r)]
    /\ UNCHANGED <<trie, inserted, errs, heap, mapper, built, snapshots, readers, frames>>

SnapExplain(k, c, r) ==
    /\ ret = NoRet
    /\ snapshots[k].m # NilMapper
    /\ ret' = [op |-> "Explain", k |-> k, c |-> c, r |-> r,
               val |-> Explain(heap, snapshots[k].m, c, r)]
    /\ UNCHANGED <<trie, inserted, errs, heap, mapper, built, snapshots, readers, frames>>

\* The orders the two map iterations of New can take, the builder being
\* allocated in heap h.
OrdersIn(h, opts, field) ==
    LET bo == builderOf(h, opts)
    IN  RangeOrders(bo.heap, bo.b[field])

CallBuildNew ==
    /\ ret = NoRet
    /\ Len(snapshots) < MaxBuilds
    /\ \E opts \in BuildOptionLists :
           \E ordH \in OrdersIn(heap, opts, "httpPrefixes"),
              ordG \in OrdersIn(heap, opts, "grpcPrefixes") :
               BuildNew(opts, ordH, ordG)

CallSnapStatus ==
    /\ ret = NoRet
    /\ \E k \in 1..Len(snapshots), c \in BuildCodes, r \in BuildReasons :
           SnapStatus(k, c, r)

CallSnapExplain ==
    /\ ret = NoRet
    /\ \E k \in 1..Len(snapshots), c \in BuildCodes, r \in BuildReasons :
           SnapExplain(k, c, r)

NextBuilds == CallBuildNew \/ CallSnapStatus \/ CallSnapExplain \/ Consume

SpecBuilds == InitBuilds /\ [][NextBuilds]_vars

----------------------------------------------------------------------------
(* The readers specification: goroutines that call the lookups of one      *)
(* mapper concurrently. A call advances by the steps of its code: the read *)
(* of the override map, the read of the trie map, the three steps of       *)
(* Match (its locals are set, the closure runs, the locals are read), and  *)
(* the read of the default map.                                            *)

NumReaders == 2    \* goroutines

\* The option lists of the mapper the goroutines share.
ReaderOptionLists ==
    { <<>>,
      << WithHTTPPrefix("unavailable", <<"a", ".", "*">>, HTTPPrefixVal(<<"a", ".", "*">>)) >>,
      << WithHTTPPrefix("unavailable", <<"a", ".", "*">>, HTTPPrefixVal(<<"a", ".", "*">>)),
         WithGRPCOverride("unavailable", 10) >> }

ReaderOps == {"HTTPStatus", "GRPCStatus", "Status", "Explain"}
\* The (code, reason) pairs the goroutines look up.
ReaderInputs ==
    { <<"unavailable", <<"a", ".", "b">> >>,
      <<"unavailable", <<"b">> >>,
      <<"custom", <<"b">> >> }

\* The lookups a call makes in turn, each in one family and either for the
\* value alone or for the line of Explain.
PartsOf(op) ==
    CASE op = "HTTPStatus" -> << [family |-> "HTTP", explain |-> FALSE] >>
      [] op = "GRPCStatus" -> << [family |-> "gRPC", explain |-> FALSE] >>
      [] op = "Status"     -> << [family |-> "HTTP", explain |-> FALSE],
                                 [family |-> "gRPC", explain |-> FALSE] >>
      [] op = "Explain"    -> << [family |-> "HTTP", explain |-> TRUE],
                                 [family |-> "gRPC", explain |-> TRUE] >>

OverrideOf(m, family) == IF family = "HTTP" THEN m.httpOverride ELSE m.grpcOverride
TrieOf(m, family)     == IF family = "HTTP" THEN m.httpTrie ELSE m.grpcTrie
DefaultOf(m, family)  == IF family = "HTTP" THEN m.httpDefault ELSE m.grpcDefault
FallbackOf(m, family, explain) ==
    IF explain THEN (IF family = "HTTP" THEN m.fallbackHTTP ELSE m.fallbackGRPC)
    ELSE (IF family = "HTTP" THEN 500 ELSE CodesInternal)

\* The line explainHTTP / explainGRPC format for a source, pattern and value.
ExplainLine(family, source, pat, v) ==
    LET head == IF family = "gRPC" THEN "grpc: "
                ELSE IF source = "fallback" THEN "http " ELSE "http: "
        mid  == IF source = "prefix" THEN <<" pattern=", pat, " -> ">> ELSE <<" -> ">>
        tail == IF family = "gRPC" THEN <<GRPCName(v), v>> ELSE <<v>>
    IN  <<head, "source=" \o source>> \o mid \o tail

\* What a lookup yields: the value, or the line of Explain.
Yield(part, source, pat, v) ==
    IF part.explain THEN ExplainLine(part.family, source, pat, v) ELSE v

\* bestDepth := -1; var bestVal T; var bestPat string
FreshFrame == [depth |-> -1, val |-> Zero, pat |-> Empty]

\* Mutant of BestSlot: the variables the closure of Match updates are shared
\* by all calls.
BestSlotShared(i) == 1

\* Where the variables bestDepth, bestVal and bestPat of the call of Match
\* made by goroutine i live: they are locals of that call.
BestSlot(i) == i

Idle == [pc |-> "idle"]

\* The goroutines share r, the mapper New(opts...) returned without error.
SharedMapper(opts, r) ==
    /\ r.err = NilErr
    /\ mapper = r.m
    /\ heap = Collect(r.heap, {r.m})
    /\ built = [done |-> TRUE, opts |-> opts]

InitReaders ==
    /\ trie = TrieNew
    /\ inserted = <<>>
    /\ errs = <<>>
    /\ snapshots = <<>>
    /\ ret = NoRet
    /\ readers = [i \in 1..NumReaders |-> Idle]
    /\ frames = [i \in 1..NumReaders |-> FreshFrame]
    /\ \E opts \in ReaderOptionLists :
           \E ordH \in OrdersOf(opts, "httpPrefixes"),
              ordG \in OrdersOf(opts, "grpcPrefixes") :
               SharedMapper(opts, New(InitHeap, opts, ordH, ordG))

ReaderKeeps == <<trie, inserted, errs, heap, mapper, built, snapshots, ret>>

\* The part of its call goroutine i is in.
PartOf(i) == PartsOf(readers[i].op)[readers[i].part]

\* Goroutine i has the result x of its current part and goes on to the next
\* part, or to the return of its call.
Advance(i, x) ==
    LET rd == readers[i]
    IN  IF rd.part < Len(PartsOf(rd.op))
        THEN [readers EXCEPT ![i].out = Append(@, x), ![i].part = @ + 1,
                             ![i].pc = "override"]
        ELSE [readers EXCEPT ![i].out = Append(@, x), ![i].pc = "done"]

\* Goroutine i calls op(c, r).
ReaderCall(i, op, c, r) ==
    /\ readers[i].pc = "idle"
    /\ readers' = [readers EXCEPT ![i] =
                      [pc |-> "override", op |-> op, c |-> c, r |-> r, part |-> 1,
                       out |-> IF op = "Explain"
                               THEN << <<"code=", c, " reason=", r>> >> ELSE <<>>]]
    /\ UNCHANGED <<frames, ReaderKeeps>>

\* if v, ok := m.httpOverride[c]; ok { return v }
ReadOverride(i) ==
    LET rd == readers[i]
        a  == OverrideOf(mapper, PartOf(i).family)
    IN  /\ rd.pc = "override"
        /\ readers' = IF MapHas(heap, a, rd.c)
                      THEN Advance(i, Yield(PartOf(i), "override", Empty,
                                            MapGet(heap, a, rd.c)))
                      ELSE [readers EXCEPT ![i].pc = "trie"]
        /\ UNCHANGED <<frames, ReaderKeeps>>

\* if idx, ok := m.httpTrie[c]; ok && idx != nil
ReadTrie(i) ==
    LET rd == readers[i]
        a  == TrieOf(mapper, PartOf(i).family)
    IN  /\ rd.pc = "trie"
        /\ readers' = IF MapHas(heap, a, rd.c) /\ MapGet(heap, a, rd.c) # Nil
                      THEN [readers EXCEPT ![i].pc = "match"]
                      ELSE [readers EXCEPT ![i].pc = "default"]
        /\ UNCHANGED <<frames, ReaderKeeps>>

\* Match / MatchWithPattern: the locals of the call are initialised.
MatchEnter(i) ==
    /\ readers[i].pc = "match"
    /\ frames' = [frames EXCEPT ![BestSlot(i)] = FreshFrame]
    /\ readers' = [readers EXCEPT ![i].pc = "dfs"]
    /\ UNCHANGED ReaderKeeps

\* Match / MatchWithPattern: the closure runs over the trie and updates the
\* locals.
MatchDfs(i) ==
    LET rd == readers[i]
        t  == heap[MapGet(heap, TrieOf(mapper, PartOf(i).family), rd.c)].t
        f  == frames[BestSlot(i)]
        b  == IF PartOf(i).explain
              THEN dfsWithPattern(t, rd.r, <<>>, 0, 0, f)
              ELSE LET d == dfs(t, rd.r, <<>>, 0, 0, [depth |-> f.depth, val |-> f.val])
                   IN  [depth |-> d.depth, val |-> d.val, pat |-> f.pat]
    IN  /\ rd.pc = "dfs"
        /\ frames' = [frames EXCEPT ![BestSlot(i)] = b]
        /\ readers' = [readers EXCEPT ![i].pc = "matched"]
        /\ UNCHANGED ReaderKeeps

\* Match / MatchWithPattern: if bestDepth < 0 { return zero, false };
\* return bestVal, true. The locals die with the call.
MatchLeave(i) ==
    LET rd == readers[i]
        f  == frames[BestSlot(i)]
    IN  /\ rd.pc = "matched"
        /\ readers' = IF f.depth < 0
                      THEN [readers EXCEPT ![i].pc = "default"]
                      ELSE Advance(i, Yield(PartOf(i), "prefix", f.pat, f.val))
        /\ frames' = [frames EXCEPT ![BestSlot(i)] = FreshFrame]
        /\ UNCHANGED ReaderKeeps

\* if v, ok := m.httpDefault[c]; ok { return v }; return 500
ReadDefault(i) ==
    LET rd == readers[i]
        a  == DefaultOf(mapper, PartOf(i).family)
    IN  /\ rd.pc = "default"
        /\ readers' = IF MapHas(heap, a, rd.c)
                      THEN Advance(i, Yield(PartOf(i), "default", Empty,
                                            MapGet(heap, a, rd.c)))
                      ELSE Advance(i, Yield(PartOf(i), "fallback", Empty,
                                            FallbackOf(mapper, PartOf(i).family,
                                                       PartOf(i).explain)))
        /\ UNCHANGED <<frames, ReaderKeeps>>

\* The call of goroutine i returns.
ReaderReturn(i) ==
    /\ readers[i].pc = "done"
    /\ readers' = [readers EXCEPT ![i] = Idle]
    /\ UNCHANGED <<frames, ReaderKeeps>>

ReaderCalls ==
    \E i \in 1..NumReaders, op \in ReaderOps, in \in ReaderInputs :
        ReaderCall(i, op, in[1], in[2])
ReadsOverride == \E i \in 1..NumReaders : ReadOverride(i)
ReadsTrie     == \E i \in 1..NumReaders : ReadTrie(i)
MatchEnters   == \E i \in 1..NumReaders : MatchEnter(i)
MatchDfsRuns  == \E i \in 1..NumReaders : MatchDfs(i)
MatchLeaves   == \E i \in 1..NumReaders : MatchLeave(i)
ReadsDefault  == \E i \in 1..NumReaders : ReadDefault(i)
ReaderReturns == \E i \in 1..NumReaders : ReaderReturn(i)

NextReaders ==
    \/ ReaderCalls \/ ReadsOverride \/ ReadsTrie \/ MatchEnters
    \/ MatchDfsRuns \/ MatchLeaves \/ ReadsDefault \/ ReaderReturns

SpecReaders == InitReaders /\ [][NextReaders]_vars

----------------------------------------------------------------------------
(* The errors specification: Error values are made by E and derived from   *)
(* one another by the mutators; the program keeps every one it was given   *)

MaxErrors == 3    \* Error values the program comes to hold

ErrCodes    == {"invalid"}
ErrMessages == {"bad", "x"}
ErrReasons  == { <<"a">> }
DetailKeys  == {"k1", "k2"}
DetailVals  == {1, 2}
Causes      == {NilCause, "root"}

\* The maps handed to WithDetails, the empty one included.
DetailMaps == UNION { [S -> DetailVals] : S \in SUBSET DetailKeys }

\* The option lists handed to E: none; a reason and a detail; a detail and
\* a map that overwrites it; a cause; and the two options that return
\* their argument (a nil cause, an empty map).
ErrOptionLists ==
    { <<>>,
      << WithReasonOption(<<"a">>), WithDetailOption("k1", 1) >>,
      << WithDetailOption("k1", 1), WithDetailsOption([x \in {"k1", "k2"} |-> 2]) >>,
      << WithCauseOption("root") >>,
      << WithCauseOption(NilCause), WithDetailsOption(EmptyMap) >> }

InitErrors ==
    /\ trie = TrieNew
    /\ inserted = <<>>
    /\ errs = <<>>
    /\ heap = InitHeap
    /\ mapper = NilMapper
    /\ built = NoBuild
    /\ snapshots = <<>>
    /\ readers = <<>>
    /\ frames = <<>>
    /\ ret = NoRet

ErrorKeeps == <<trie, inserted, mapper, built, snapshots, readers, frames>>

\* The program keeps the reference r.addr a call returned, next to the
\* Error values it holds; call describes the call.
HoldError(call, r) ==
    /\ errs' = Append(errs, [ref |-> r.addr, was |-> View(r.heap, r.addr)])
    /\ heap' = r.heap
    /\ ret' = call
    /\ UNCHANGED ErrorKeeps

DoE(c, msg, opts) ==
    /\ Len(errs) < MaxErrors
    /\ HoldError([op |-> "E", c |-> c, msg |-> msg, opts |-> opts],
                 E(heap, c, msg, opts))

DoWithReason(i, r) ==
    /\ Len(errs) < MaxErrors
    /\ HoldError([op |-> "WithReason", recv |-> i, r |-> r],
                 WithReason(heap, errs[i].ref, r))

DoWithMessage(i, msg) ==
    /\ Len(errs) < MaxErrors
    /\ HoldError([op |-> "WithMessage", recv |-> i, msg |-> msg],
                 WithMessage(heap, errs[i].ref, msg))

DoWithDetail(i, k, v) ==
    /\ Len(errs) < MaxErrors
    /\ HoldError([op |-> "WithDetail", recv |-> i, k |-> k, v |-> v],
                 WithDetail(heap, errs[i].ref, k, v))

DoWithDetails(i, kv) ==
    /\ Len(errs) < MaxErrors
    /\ HoldError([op |-> "WithDetails", recv |-> i, kv |-> kv],
                 WithDetails(heap, errs[i].ref, kv))

DoWithCause(i, err) ==
    /\ Len(errs) < MaxErrors
    /\ HoldError([op |-> "WithCause", recv |-> i, err |-> err],
                 WithCause(heap, errs[i].ref, err))

CallE ==
    /\ Len(errs) < MaxErrors
    /\ \E c \in ErrCodes, msg \in ErrMessages, opts \in ErrOptionLists : DoE(c, msg, opts)
CallWithReason ==
    /\ Len(errs) < MaxErrors
    /\ \E i \in 1..Len(errs), r \in ErrReasons : DoWithReason(i, r)
CallWithMessage ==
    /\ Len(errs) < MaxErrors
    /\ \E i \in 1..Len(errs), msg \in ErrMessages : DoWithMessage(i, msg)
CallWithDetail ==
    /\ Len(errs) < MaxErrors
    /\ \E i \in 1..Len(errs), k \in DetailKeys, v \in DetailVals : DoWithDetail(i, k, v)
CallWithDetails ==
    /\ Len(errs) < MaxErrors
    /\ \E i \in 1..Len(errs), kv \in DetailMaps : DoWithDetails(i, kv)
CallWithCause ==
    /\ Len(errs) < MaxErrors
    /\ \E i \in 1..Len(errs), err \in Causes : DoWithCause(i, err)

NextErrors ==
    \/ CallE \/ CallWithReason \/ CallWithMessage
    \/ CallWithDetail \/ CallWithDetails \/ CallWithCause

SpecErrors == InitErrors /\ [][NextErrors]_vars

----------------------------------------------------------------------------
(* Reference notions for the trie properties, stated on the history of     *)
(* inserted patterns and on the text of the path, not on the trie          *)

\* Whether a path segment is a well-formed literal, [a-z][a-z0-9_]*.
WellFormed(seg) ==
    /\ seg # Empty
    /\ seg[1] \in LowerChars
    /\ \A i \in 2..Len(seg) : seg[i] \in LowerChars \cup DigitChars \cup {"_"}

\* The segments of a path that a lookup can consume: the dot-separated
\* segments up to, and not including, the first one that is not well-formed.
LeadSegs(path) ==
    LET segs == Split(path)
        bad  == { i \in 1..Len(segs) : ~WellFormed(segs[i]) }
    IN  IF bad = {} THEN segs
        ELSE SubSeq(segs, 1, (CHOOSE i \in bad : \A j \in bad : i <= j) - 1)

\* Pattern segments ps match the leading segments of segs one-for-one.
PatternMatches(ps, segs) ==
    /\ Len(ps) <= Len(segs)
    /\ \A i \in 1..Len(ps) : ps[i] = Star \/ ps[i] = segs[i]

\* The inserted patterns that match a path, and the deepest of them.
Matching(path) ==
    { p \in DOMAIN inserted : PatternMatches(Split(p), LeadSegs(path)) }

Deepest(path) ==
    { p \in Matching(path) :
        \A q \in Matching(path) : Len(Split(q)) <= Len(Split(p)) }

\* p is literal wherever it differs from q, both of the same length.
AtLeastAsLiteral(p, q) ==
    /\ Len(Split(p)) = Len(Split(q))
    /\ \A i \in 1..Len(Split(p)) :
           Split(p)[i] = Split(q)[i] \/ Split(q)[i] = Star

Pat_a        == <<"a">>
Pat_a_a      == <<"a", ".", "a">>
Pat_a_star   == <<"a", ".", "*">>
Pat_a_ab     == <<"a", ".", "a", "b">>

----------------------------------------------------------------------------
(* Properties of the trie                                                  *)

\* C3: longest-prefix match. Match finds a value exactly when some inserted
\* pattern matches the leading segments of the path one-for-one (literal
\* equal, wildcard against one segment), and the value it returns is the
\* value of a matching pattern of maximal segment count.
C3_LongestPrefixMatch ==
    ret.op = "Match" =>
        /\ ret.found <=> Matching(ret.arg) # {}
        /\ ret.found => \E p \in Deepest(ret.arg) : inserted[p] = ret.val
        /\ ~ret.found => ret.val = Zero

\* a.* -> 2 and a -> 1 are inserted and Match("a.a.b") has returned the
\* value of the deeper, wildcard pattern.
C3_Witness ==
    /\ ret.op = "Match" /\ ret.arg = <<"a", ".", "a", ".", "b">>
    /\ DOMAIN inserted = {Pat_a_star, Pat_a}
    /\ inserted[Pat_a_star] = 2 /\ inserted[Pat_a] = 1
    /\ ret.found /\ ret.val = 2

\* C7: a wildcard consumes exactly one path segment. A found value belongs
\* to an inserted pattern that is no longer than the path, each of whose
\* wildcards is paired with one non-empty path segment of its own and each
\* of whose literals equals the path segment at its own position; when
\* every inserted pattern has more segments than the path, nothing is found;
\* and a pattern ending in a wildcard is found through its own node for any
\* longer path.
C7_WildcardOneSegment ==
    ret.op = "Match" =>
        LET segs == Split(ret.arg)
        IN  /\ ret.found =>
                \E p \in DOMAIN inserted :
                    /\ inserted[p] = ret.val
                    /\ Len(Split(p)) <= Len(segs)
                    /\ \A i \in 1..Len(Split(p)) :
                           IF Split(p)[i] = Star THEN segs[i] # Empty
                           ELSE segs[i] = Split(p)[i]
            /\ (\A p \in DOMAIN inserted : Len(Split(p)) > Len(segs)) => ~ret.found
            /\ \A p \in DOMAIN inserted :
                   (/\ DOMAIN inserted = {p}
                    /\ Split(p)[Len(Split(p))] = Star
                    /\ PatternMatches(Split(p), LeadSegs(ret.arg)))
                   => ret.found /\ ret.val = inserted[p]

\* Only a.* is inserted and Match("a") has found nothing.
C7_Witness ==
    /\ ret.op = "Match" /\ ret.arg = <<"a">>
    /\ DOMAIN inserted = {Pat_a_star}
    /\ ~ret.found

\* C8: exact literal beats wildcard at equal depth. When two or more
\* inserted patterns of the maximal matching depth match the path and one
\* of them is literal wherever it differs from the others, Match returns
\* the value of that one, whatever the order of insertion.
C8_LiteralBeatsWildcard ==
    ret.op = "Match" =>
        \A p \in Deepest(ret.arg) :
            (/\ Deepest(ret.arg) # {p}
             /\ \A q \in Deepest(ret.arg) : AtLeastAsLiteral(p, q))
            => ret.found /\ ret.val = inserted[p]

\* a.* -> 1 and a.a -> 2 are inserted and Match("a.a.b") has returned 2.
C8_Witness ==
    /\ ret.op = "Match" /\ ret.arg = <<"a", ".", "a", ".", "b">>
    /\ DOMAIN inserted = {Pat_a_star, Pat_a_a}
    /\ inserted[Pat_a_star] = 1 /\ inserted[Pat_a_a] = 2
    /\ ret.found /\ ret.val = 2

\* C9: segment-boundary integrity. A found value belongs to an inserted
\* pattern each of whose literal segments equals, as a whole segment, the
\* path segment at the same position; a path segment that is a proper
\* prefix or a proper extension of the pattern's segment does not match.
C9_SegmentBoundary ==
    ret.op = "Match" /\ ret.found =>
        LET segs == Split(ret.arg)
        IN  \E p \in DOMAIN inserted :
                /\ inserted[p] = ret.val
                /\ \A i \in 1..Len(Split(p)) :
                       Split(p)[i] # Star =>
                           i <= Len(segs) /\ segs[i] = Split(p)[i]

\* Only a.ab is inserted and Match("a.a") has found nothing.
C9_Witness ==
    /\ ret.op = "Match" /\ ret.arg = Pat_a_a
    /\ DOMAIN inserted = {Pat_a_ab}
    /\ ~ret.found

\* A pattern Insert must reject: it is empty, has an empty segment, has a
\* segment that is neither the wildcard nor a well-formed literal, or has
\* wildcard segments only.
BadPattern(p) ==
    LET segs == Split(p)
    IN  \/ p = Empty
        \/ \E i \in 1..Len(segs) : segs[i] = Empty
        \/ \E i \in 1..Len(segs) : segs[i] # Star /\ ~WellFormed(segs[i])
        \/ \A i \in 1..Len(segs) : segs[i] = Star

\* C11: Insert returns ErrInvalidPrefix exactly when the pattern is empty,
\* contains an empty segment, contains a segment that is neither "*" nor of
\* the form [a-z][a-z0-9_]*, or consists of "*" segments only; it returns
\* nil for every other pattern, and a rejected pattern leaves the trie as it
\* was.
C11_InsertRejects ==
    ret.op = "Insert" =>
        /\ ret.err <=> BadPattern(ret.arg)
        /\ ret.err => trie = ret.before

\* Insert("*.*") on a trie that already holds a pattern has returned
\* ErrInvalidPrefix.
C11_Witness ==
    /\ ret.op = "Insert" /\ ret.arg = <<"*", ".", "*">>
    /\ ret.err
    /\ DOMAIN inserted # {}

\* C21: trie node invariant. After any sequence of Insert calls, failing
\* ones included, a node carries a value exactly when a successful Insert
\* was called with the pattern that ends at it, and then it holds the value
\* of the last such call and that pattern as its text; the root carries no
\* value, and every node lies on the way to an inserted pattern.
C21_NodeInvariant ==
    /\ ~trie[<<>>].hasVal
    /\ \A n \in DOMAIN trie :
           /\ trie[n].hasVal <=> Join(n) \in DOMAIN inserted
           /\ trie[n].hasVal =>
                  /\ trie[n].pattern = Join(n)
                  /\ trie[n].val = inserted[Join(n)]
           /\ ~trie[n].hasVal => trie[n].pattern = Empty /\ trie[n].val = Zero
           /\ \E p \in DOMAIN inserted \cup {Empty} :
                  Len(n) <= Len(Split(p)) /\ n = SubSeq(Split(p), 1, Len(n))
    /\ \A p \in DOMAIN inserted : Split(p) \in DOMAIN trie

\* Only a.a is inserted, so that the node a is a mere intermediate node
\* without a value, and an Insert has just failed.
C21_Witness ==
    /\ ret.op = "Insert" /\ ret.err
    /\ DOMAIN inserted = {Pat_a_a}
    /\ <<<<"a">>>> \in DOMAIN trie /\ ~trie[<<<<"a">>>>].hasVal
    /\ trie[<<<<"a">>, <<"a">>>>].hasVal

\* A path with a segment that is not a well-formed literal.
HasInvalidSegment(path) == path # Empty /\ LeadSegs(path) # Split(path)

\* C18: lenient stop on an invalid path segment. When the path of Match or
\* MatchWithPattern has a segment that is not of the form [a-z][a-z0-9_]*,
\* the result is the best match over the well-formed segments before it: it
\* is the result for the path cut before that segment; a pattern that
\* matches those segments is returned with found = true; and the pattern
\* that wins is no longer than they are, so that no wildcard is matched
\* against the invalid segment.
C18_LenientStop ==
    (ret.op \in {"Match", "MatchWithPattern"} /\ HasInvalidSegment(ret.arg)) =>
        LET lead == LeadSegs(ret.arg)
        IN  /\ ret.found <=> Matching(ret.arg) # {}
            /\ ret.found =>
                   \E p \in Deepest(ret.arg) :
                       /\ inserted[p] = ret.val
                       /\ Len(Split(p)) <= Len(lead)
                       /\ ret.op = "MatchWithPattern" => ret.pat = p
            /\ ret.op = "Match" =>
                   [val |-> ret.val, found |-> ret.found] = Match(trie, Join(lead))
            /\ ret.op = "MatchWithPattern" =>
                   [val |-> ret.val, found |-> ret.found, pat |-> ret.pat]
                       = MatchWithPattern(trie, Join(lead))

\* a -> 1 and a.* -> 2 are inserted and Match("a.B") has returned the value
\* of a: the wildcard has not matched the segment B.
C18_Witness ==
    /\ ret.op = "Match" /\ ret.arg = <<"a", ".", "B">>
    /\ DOMAIN inserted = {Pat_a, Pat_a_star}
    /\ inserted[Pat_a] = 1 /\ inserted[Pat_a_star] = 2
    /\ ret.found /\ ret.val = 1

\* C19: as documented on Match, a reason with an uppercase, empty or
\* otherwise malformed segment makes Match and MatchWithPattern return the
\* zero value and found = false (and no pattern), whatever the trie holds.
C19_InvalidReasonNotFound ==
    (ret.op \in {"Match", "MatchWithPattern"} /\ HasInvalidSegment(ret.arg)) =>
        /\ ~ret.found
        /\ ret.val = Zero
        /\ ret.op = "MatchWithPattern" => ret.pat = Empty

\* The pattern p is met before the pattern q of the same length by a
\* traversal that takes the exact branch first: p has a literal where the
\* two first differ.
MetBefore(p, q) ==
    \E i \in 1..Len(Split(p)) :
        /\ \A j \in 1..(i - 1) : Split(p)[j] = Split(q)[j]
        /\ Split(p)[i] # Split(q)[i]
        /\ Split(p)[i] # Star

\* Among the deepest patterns that match the path, the one met first.
FirstDeepest(path) ==
    CHOOSE p \in Deepest(path) : \A q \in Deepest(path) \ {p} : MetBefore(p, q)

\* C20 as stated: no ties at the winning depth. For any inserted patterns
\* and any path, at most one value-carrying node of the maximal matched
\* depth is reachable, so that depth alone determines the result of Match.
C20_NoTies ==
    ret.op \in {"Match", "MatchWithPattern"} => Cardinality(Deepest(ret.arg)) <= 1

\* C20: several value-carrying nodes of the maximal matched depth may be
\* reachable; Match and MatchWithPattern return the one the traversal meets
\* first, the exact branch being taken before the wildcard branch at every
\* node: the pattern that has a literal segment where it first differs from
\* each of the others.
C20_FirstInTraversal ==
    (ret.op \in {"Match", "MatchWithPattern"} /\ ret.found) =>
        /\ Deepest(ret.arg) # {}
        /\ \E p \in Deepest(ret.arg) :
               \A q \in Deepest(ret.arg) \ {p} : MetBefore(p, q)
        /\ ret.val = inserted[FirstDeepest(ret.arg)]
        /\ ret.op = "MatchWithPattern" => ret.pat = FirstDeepest(ret.arg)

\* a.* -> 1 and *.a -> 2 are inserted, both match a.a at depth 2, and
\* Match("a.a") has returned the value of a.*.
C20_Witness ==
    /\ ret.op = "Match" /\ ret.arg = <<"a", ".", "a">>
    /\ DOMAIN inserted = {Pat_a_star, <<"*", ".", "a">>}
    /\ inserted[Pat_a_star] = 1 /\ inserted[<<"*", ".", "a">>] = 2
    /\ Cardinality(Deepest(ret.arg)) = 2
    /\ ret.found /\ ret.val = 1

\* C26: Match and MatchWithPattern perform the same traversal. On every
\* trie and path the two return the same value and the same found; when
\* found, the pattern MatchWithPattern returns is the pattern stored on the
\* node whose value is returned, the node that pattern ends at; when not
\* found, it returns no pattern.
C26_SameTraversal ==
    /\ ret.op = "Match" =>
           LET mw == MatchWithPattern(trie, ret.arg)
           IN  mw.val = ret.val /\ mw.found = ret.found
    /\ ret.op = "MatchWithPattern" =>
           /\ Match(trie, ret.arg) = [val |-> ret.val, found |-> ret.found]
           /\ ret.found =>
                  /\ Split(ret.pat) \in DOMAIN trie
                  /\ trie[Split(ret.pat)].hasVal
                  /\ trie[Split(ret.pat)].pattern = ret.pat
                  /\ trie[Split(ret.pat)].val = ret.val
                  /\ ret.pat \in Deepest(ret.arg)
           /\ ~ret.found => ret.pat = Empty

\* a -> 1 and *.a -> 2 are inserted and MatchWithPattern("a.a.b") has
\* returned the value and the pattern of *.a, reached through the wildcard
\* branch of the root although the root has the exact child a.
C26_Witness ==
    /\ ret.op = "MatchWithPattern" /\ ret.arg = <<"a", ".", "a", ".", "b">>
    /\ DOMAIN inserted = {Pat_a, <<"*", ".", "a">>}
    /\ inserted[Pat_a] = 1 /\ inserted[<<"*", ".", "a">>] = 2
    /\ ret.found /\ ret.val = 2 /\ ret.pat = <<"*", ".", "a">>

\* C29: the frame of Insert. An Insert that fails leaves the trie as it
\* was, with no node created and every Match result unchanged. An Insert
\* of p that succeeds changes the result of Match and MatchWithPattern
\* only for paths whose leading segments p matches; for every other path
\* the results are those of the trie before the call.
C29_InsertFrame ==
    ret.op = "Insert" =>
        /\ ret.err =>
               /\ trie = ret.before
               /\ DOMAIN trie = DOMAIN ret.before
               /\ \A path \in Paths : Match(trie, path) = Match(ret.before, path)
        /\ ~ret.err =>
               \A path \in Paths :
                   ~PatternMatches(Split(ret.arg), LeadSegs(path)) =>
                       /\ Match(trie, path) = Match(ret.before, path)
                       /\ MatchWithPattern(trie, path)
                              = MatchWithPattern(ret.before, path)

\* a was inserted with value 1, and Insert("a.a", 2) has just succeeded:
\* the path a.b, which a.a does not match, still resolves to 1, and the
\* path a.a, which it matches, now resolves to 2.
C29_Witness ==
    /\ ret.op = "Insert" /\ ~ret.err /\ ret.arg = Pat_a_a /\ ret.val = 2
    /\ DOMAIN inserted = {Pat_a, Pat_a_a} /\ inserted[Pat_a] = 1
    /\ Match(ret.before, <<"a", ".", "a">>) = [val |-> 1, found |-> TRUE]
    /\ Match(trie, <<"a", ".", "a">>) = [val |-> 2, found |-> TRUE]
    /\ Match(trie, <<"a", ".", "b">>) = [val |-> 1, found |-> TRUE]

\* The number of segments of a path.
NumSegs(path) == IF path = Empty THEN 0 ELSE Len(Split(path))

\* The value-carrying nodes among those a traversal visited.
ValuedVisits(visited) == { i \in 1..Len(visited) : trie[visited[i]].hasVal }

\* C27: bounded traversal work. One traversal of Match on a path of n
\* segments visits at most n value-carrying nodes, whatever the trie
\* holds, literal and wildcard children at every level included.
C27_LinearWork ==
    (ret.op = "Match" /\ "visited" \in DOMAIN ret) =>
        Cardinality(ValuedVisits(ret.visited)) <= NumSegs(ret.arg)

----------------------------------------------------------------------------
(* Reference notions for the mapper properties, stated on the options the  *)
(* mapper was built from and on the static default tables                  *)

Families == {"HTTP", "gRPC"}

KindOf(family, what) ==
    (IF family = "HTTP" THEN "HTTP" ELSE "GRPC") \o what

\* The positions of the options of one kind for one code.
OptsAt(opts, kind, c) ==
    { i \in 1..Len(opts) : opts[i].kind = kind /\ opts[i].c = c }

\* The prefix rules of one family and code, in the order given.
RECURSIVE RulesOf(_, _, _)
RulesOf(opts, family, c) ==
    IF opts = <<>> THEN <<>>
    ELSE (IF Head(opts).kind = KindOf(family, "Prefix") /\ Head(opts).c = c
          THEN <<Head(opts)>> ELSE <<>>) \o RulesOf(Tail(opts), family, c)

\* The trie of a list of prefix rules: each normalized prefix inserted in
\* turn.
RECURSIVE RulesTrie(_, _)
RulesTrie(rules, family) ==
    IF rules = <<>> THEN TrieNew
    ELSE LET rest == RulesTrie(SubSeq(rules, 1, Len(rules) - 1), family)
             last == rules[Len(rules)]
         IN  Insert(rest, Normalize(last.prefix), RuleVal(family, last.val)).trie

BuiltinDefaults(family) == IF family = "HTTP" THEN defaultHTTP ELSE defaultGRPC

GlobalFallback(family) == IF family = "HTTP" THEN 500 ELSE 13

\* The tiers that hold a value for (c, r), highest first: the override, the
\* prefix match, the default set by an option, the built-in default, and
\* the global fallback, which is always there.
TierChain(opts, family, c, r) ==
    LET ov == OptsAt(opts, KindOf(family, "Override"), c)
        df == OptsAt(opts, KindOf(family, "Default"), c)
        pm == Match(RulesTrie(RulesOf(opts, family, c), family), r)
    IN  (IF ov # {}
         THEN << [tier |-> "override", sub |-> "override",
                  val |-> RuleVal(family, opts[Max(ov)].val)] >> ELSE <<>>)
        \o (IF pm.found
            THEN << [tier |-> "prefix", sub |-> "prefix", val |-> pm.val] >> ELSE <<>>)
        \o (IF df # {}
            THEN << [tier |-> "default", sub |-> "option default",
                     val |-> RuleVal(family, opts[Max(df)].val)] >> ELSE <<>>)
        \o (IF c \in DOMAIN BuiltinDefaults(family)
            THEN << [tier |-> "default", sub |-> "built-in default",
                     val |-> BuiltinDefaults(family)[c]] >> ELSE <<>>)
        \o << [tier |-> "fallback", sub |-> "fallback", val |-> GlobalFallback(family)] >>

\* The options without the rules of one tier for one family and code.
RECURSIVE WithoutTier(_, _, _, _)
WithoutTier(opts, family, c, sub) ==
    LET kind == CASE sub = "override" -> KindOf(family, "Override")
                  [] sub = "prefix" -> KindOf(family, "Prefix")
                  [] OTHER -> KindOf(family, "Default")
    IN  IF opts = <<>> THEN <<>>
        ELSE (IF Head(opts).kind = kind /\ Head(opts).c = c
              THEN <<>> ELSE <<Head(opts)>>) \o WithoutTier(Tail(opts), family, c, sub)

\* What a mapper built from opts resolves (c, r) to in one family.
ResolveOf(opts, family, c, r) ==
    LET ordH == CHOOSE o \in OrdersOf(opts, "httpPrefixes") : TRUE
        ordG == CHOOSE o \in OrdersOf(opts, "grpcPrefixes") : TRUE
        n    == New(InitHeap, opts, ordH, ordG)
    IN  IF family = "HTTP" THEN HTTPStatus(n.heap, n.m, c, r)
        ELSE GRPCStatus(n.heap, n.m, c, r)

FamilyOfOp(op) == IF op = "HTTPStatus" THEN "HTTP" ELSE "gRPC"

\* A rule prefix that the build must reject: after normalization it is
\* empty, has an empty segment, has a segment that is neither the wildcard
\* nor a well-formed literal, or has wildcard segments only.
BadPrefix(raw) ==
    LET p    == Normalize(raw)
        segs == Split(p)
    IN  \/ p = Empty
        \/ \E i \in 1..Len(segs) : segs[i] = Empty
        \/ \E i \in 1..Len(segs) : segs[i] # Star /\ ~WellFormed(segs[i])
        \/ \A i \in 1..Len(segs) : segs[i] = Star

IsPrefixOpt(o) == o.kind \in {"HTTPPrefix", "GRPCPrefix"}

----------------------------------------------------------------------------
(* Properties of the mapper                                                *)

\* C1: fixed precedence. HTTPStatus and GRPCStatus return the value of the
\* highest tier that holds one for (code, reason): override, prefix match,
\* per-code default, global fallback; and a mapper built from the same
\* options without the winning tier's rules returns the next tier's value.
C1_Precedence ==
    ret.op \in {"HTTPStatus", "GRPCStatus"} =>
        LET family == FamilyOfOp(ret.op)
            chain  == TierChain(built.opts, family, ret.c, ret.r)
        IN  /\ ret.val = chain[1].val
            /\ chain[1].sub \in {"override", "prefix", "option default"} =>
                   ResolveOf(WithoutTier(built.opts, family, ret.c, chain[1].sub),
                             family, ret.c, ret.r) = chain[2].val

\* An HTTP override and a matching HTTP prefix rule are configured for
\* "unavailable", which also has a built-in default, and HTTPStatus has
\* returned the override.
C1_Witness ==
    /\ ret.op = "HTTPStatus" /\ ret.c = "unavailable" /\ ret.r = <<"a", ".", "b">>
    /\ OptsAt(built.opts, "HTTPOverride", "unavailable") # {}
    /\ \E i \in OptsAt(built.opts, "HTTPPrefix", "unavailable") :
           built.opts[i].prefix = <<"a">>
    /\ ret.val = 418

\* C2: runtime resolution is total. For every code and every reason,
\* HTTPStatus, GRPCStatus and Status can be called on a built mapper and
\* return status values; a code with no override, no prefix rule and no
\* default resolves to 500 / codes.Internal.
C2_Total ==
    /\ (mapper # NilMapper /\ ret = NoRet) =>
           \A c \in LookupCodes, r \in Reasons :
               /\ ENABLED DoHTTPStatus(c, r)
               /\ ENABLED DoGRPCStatus(c, r)
               /\ ENABLED DoStatus(c, r)
    /\ ret.op \in {"HTTPStatus", "GRPCStatus", "Status"} =>
           LET bare(family) ==
                   /\ OptsAt(built.opts, KindOf(family, "Override"), ret.c) = {}
                   /\ OptsAt(built.opts, KindOf(family, "Prefix"), ret.c) = {}
                   /\ OptsAt(built.opts, KindOf(family, "Default"), ret.c) = {}
                   /\ ret.c \notin DOMAIN BuiltinDefaults(family)
               http == IF ret.op = "Status" THEN ret.val.HTTP ELSE ret.val
               grpc == IF ret.op = "Status" THEN ret.val.GRPC ELSE ret.val
           IN  /\ ret.op # "GRPCStatus" => http \in Nat /\ (bare("HTTP") => http = 500)
               /\ ret.op # "HTTPStatus" => grpc \in Nat /\ (bare("gRPC") => grpc = 13)

\* Status has returned 500 / codes.Internal for the code "custom", which no
\* table knows, and a reason with a malformed segment.
C2_Witness ==
    /\ ret.op = "Status" /\ ret.c = "custom" /\ ret.r = <<"a", ".", "B">>
    /\ \A i \in 1..Len(built.opts) : built.opts[i].c # "custom"
    /\ built.opts # <<>>
    /\ ret.val = [HTTP |-> 500, GRPC |-> 13]

\* C4: the build is all-or-nothing. New returns an error and no mapper when
\* some prefix rule of either family is malformed, and a mapper and no
\* error when every prefix rule is valid.
C4_AllOrNothing ==
    ret.op = "New" =>
        LET bad == \E i \in 1..Len(ret.opts) :
                       IsPrefixOpt(ret.opts[i]) /\ BadPrefix(ret.opts[i].prefix)
        IN  /\ bad => ret.err # NilErr /\ ret.m = NilMapper /\ mapper = NilMapper
            /\ ~bad => ret.err = NilErr /\ ret.m # NilMapper /\ mapper = ret.m

\* New was given a valid HTTP prefix rule and a malformed gRPC prefix rule
\* and has returned an error and no mapper.
C4_Witness ==
    /\ ret.op = "New"
    /\ \E i, j \in 1..Len(ret.opts) :
           /\ ret.opts[i].kind = "HTTPPrefix" /\ ~BadPrefix(ret.opts[i].prefix)
           /\ ret.opts[j].kind = "GRPCPrefix" /\ BadPrefix(ret.opts[j].prefix)
    /\ ret.err # NilErr /\ ret.m = NilMapper

\* The pieces of a line of Explain: its source, the pattern it prints and
\* the value it prints last.
LineSource(line) ==
    CASE line[2] = "source=override" -> "override"
      [] line[2] = "source=prefix"   -> "prefix"
      [] line[2] = "source=default"  -> "default"
      [] line[2] = "source=fallback" -> "fallback"
      [] OTHER -> "unknown"
LinePattern(line) == line[4]
LineValue(line) == line[Len(line)]

\* C10: Explain agrees with resolution. For each family the tier Explain
\* reports is the tier of the precedence order that holds the value for
\* (code, reason), the value it prints is the value HTTPStatus / GRPCStatus
\* return, and for a prefix hit the printed pattern is the normalized text
\* of a rule of that code and family that carries the returned value.
C10_ExplainAgrees ==
    ret.op = "Explain" =>
        \A family \in Families :
            LET line  == IF family = "HTTP" THEN ret.val[2] ELSE ret.val[3]
                chain == TierChain(built.opts, family, ret.c, ret.r)
                value == IF family = "HTTP" THEN HTTPStatus(heap, mapper, ret.c, ret.r)
                         ELSE GRPCStatus(heap, mapper, ret.c, ret.r)
            IN  /\ LineSource(line) = chain[1].tier
                /\ LineValue(line) = value
                /\ LineSource(line) = "prefix" =>
                       \E i \in OptsAt(built.opts, KindOf(family, "Prefix"), ret.c) :
                           /\ Normalize(built.opts[i].prefix) = LinePattern(line)
                           /\ RuleVal(family, built.opts[i].val) = value

\* The rules a.* and a.z_9 (given as "\tA/Z-9 ") are configured for
\* "unavailable" and Explain has reported the literal rule for the reason
\* a.z_9, which both match.
C10_Witness ==
    /\ ret.op = "Explain" /\ ret.c = "unavailable"
    /\ ret.r = <<"a", ".", "z", "_", "9">>
    /\ Len(built.opts) = 2
    /\ \A i \in 1..2 : built.opts[i].kind = "HTTPPrefix" /\ built.opts[i].c = "unavailable"
    /\ {built.opts[1].prefix, built.opts[2].prefix}
           = {<<"a", ".", "*">>, <<"\t", "A", "/", "Z", "-", "9", " ">>}
    /\ LineSource(ret.val[2]) = "prefix"
    /\ LinePattern(ret.val[2]) = <<"a", ".", "z", "_", "9">>
    /\ LineValue(ret.val[2]) = 594

\* C6: snapshot immutability across builds. A step of the process never
\* changes an object a mapper already returned reaches, nor what that
\* mapper answers, nor the package-level default tables; and every mapper
\* held, built earlier or later than the others, answers by its own options
\* alone.
C6_SnapshotImmutable ==
    /\ [](\A k \in 1..Len(snapshots) :
             snapshots[k].m # NilMapper =>
                 \A c \in BuildCodes, r \in BuildReasons :
                     /\ HTTPStatus(heap, snapshots[k].m, c, r)
                            = TierChain(snapshots[k].opts, "HTTP", c, r)[1].val
                     /\ GRPCStatus(heap, snapshots[k].m, c, r)
                            = TierChain(snapshots[k].opts, "gRPC", c, r)[1].val)
    /\ [][ /\ heap'[DefaultHTTPAddr] = heap[DefaultHTTPAddr]
           /\ heap'[DefaultGRPCAddr] = heap[DefaultGRPCAddr]
           /\ \A k \in 1..Len(snapshots) :
                  /\ snapshots'[k] = snapshots[k]
                  /\ snapshots[k].m # NilMapper =>
                         /\ \A a \in MapperRefs(heap, snapshots[k].m) :
                                a \in DOMAIN heap' /\ heap'[a] = heap[a]
                         /\ heap' # heap =>
                                \A c \in BuildCodes, r \in BuildReasons :
                                    /\ Status(heap', snapshots[k].m, c, r)
                                           = Status(heap, snapshots[k].m, c, r)
                                    /\ Explain(heap', snapshots[k].m, c, r)
                                           = Explain(heap, snapshots[k].m, c, r)
         ]_vars

\* A mapper was built without options, a second one with the default of
\* "unavailable" set to 502, and the first one still answers 503 for
\* "unavailable".
C6_Witness ==
    /\ Len(snapshots) = 2
    /\ snapshots[1].opts = <<>>
    /\ snapshots[2].m # NilMapper
    /\ snapshots[2].opts = << WithHTTPDefault("unavailable", 502) >>
    /\ ret.op = "Status" /\ ret.k = 1 /\ ret.c = "unavailable"
    /\ ret.r = <<"a", ".", "b">>
    /\ ret.val.HTTP = 503

\* The per-code default of one family that the options and the static
\* table give: the value of the last default directive for the code in that
\* family, else the entry of the static table, else the global fallback.
DefaultFor(opts, family, c) ==
    LET df == OptsAt(opts, KindOf(family, "Default"), c)
    IN  IF df # {} THEN opts[Max(df)].val
        ELSE IF c \in DOMAIN BuiltinDefaults(family) THEN BuiltinDefaults(family)[c]
        ELSE GlobalFallback(family)

\* No override and no prefix rule is configured for the code in the family.
DefaultsOnly(opts, family, c) ==
    /\ OptsAt(opts, KindOf(family, "Override"), c) = {}
    /\ OptsAt(opts, KindOf(family, "Prefix"), c) = {}

\* C12: built-in defaults. A mapper built by New with no options resolves
\* every code of the static table, with any reason, to its table entry in
\* both families (invalid -> 400 / InvalidArgument, not_found -> 404 /
\* NotFound, unavailable -> 503 / Unavailable); and a default directive
\* replaces the default of the code and family it names and of no other:
\* a code without override and prefix rules resolves to the last default
\* directive given for it in that family, else to its table entry.
C12_BuiltinDefaults ==
    /\ (ret.op = "New" /\ ret.opts = <<>>) =>
           /\ ret.err = NilErr
           /\ \A c \in DOMAIN defaultHTTP, r \in Reasons :
                  Status(heap, mapper, c, r)
                      = [HTTP |-> defaultHTTP[c], GRPC |-> defaultGRPC[c]]
           /\ \A r \in Reasons :
                  /\ Status(heap, mapper, "invalid", r) = [HTTP |-> 400, GRPC |-> 3]
                  /\ Status(heap, mapper, "not_found", r) = [HTTP |-> 404, GRPC |-> 5]
                  /\ Status(heap, mapper, "unavailable", r) = [HTTP |-> 503, GRPC |-> 14]
    /\ ret.op \in {"HTTPStatus", "GRPCStatus", "Status"} =>
           LET http == IF ret.op = "Status" THEN ret.val.HTTP ELSE ret.val
               grpc == IF ret.op = "Status" THEN ret.val.GRPC ELSE ret.val
           IN  /\ (ret.op # "GRPCStatus" /\ DefaultsOnly(built.opts, "HTTP", ret.c))
                      => http = DefaultFor(built.opts, "HTTP", ret.c)
               /\ (ret.op # "HTTPStatus" /\ DefaultsOnly(built.opts, "gRPC", ret.c))
                      => grpc = DefaultFor(built.opts, "gRPC", ret.c)

\* The mapper was built with the HTTP default of "unavailable" set to 502
\* alone, and Status has returned 502 with the gRPC entry of the static
\* table, Unavailable.
C12_Witness ==
    /\ ret.op = "Status" /\ ret.c = "unavailable" /\ ret.r = <<"a", ".", "b">>
    /\ built.opts = << WithHTTPDefault("unavailable", 502) >>
    /\ ret.val = [HTTP |-> 502, GRPC |-> 14]

\* What the tiers other than the prefix tier give for a code in a family:
\* the last override given for it, else its per-code default or the global
\* fallback.
OverrideOrDefault(opts, family, c) ==
    LET ov == OptsAt(opts, KindOf(family, "Override"), c)
    IN  IF ov # {} THEN opts[Max(ov)].val ELSE DefaultFor(opts, family, c)

\* C13: an empty reason never hits the prefix tier. No trie of a mapper
\* carries a value on its root; so, whatever prefix rules are configured
\* for the code, a lookup of (code, "") returns the override if there is
\* one and else the per-code default or the global fallback, and Explain
\* never reports the prefix tier for it.
C13_EmptyReasonNoPrefix ==
    /\ \A a \in DOMAIN heap :
           heap[a].kind = "trie" => ~heap[a].t[<<>>].hasVal
    /\ (ret.op \in {"HTTPStatus", "GRPCStatus", "Status"} /\ ret.r = Empty) =>
           LET http == IF ret.op = "Status" THEN ret.val.HTTP ELSE ret.val
               grpc == IF ret.op = "Status" THEN ret.val.GRPC ELSE ret.val
           IN  /\ ret.op # "GRPCStatus"
                      => http = OverrideOrDefault(built.opts, "HTTP", ret.c)
               /\ ret.op # "HTTPStatus"
                      => grpc = OverrideOrDefault(built.opts, "gRPC", ret.c)
    /\ (ret.op = "Explain" /\ ret.r = Empty) =>
           /\ LineSource(ret.val[2]) \in {"override", "default", "fallback"}
           /\ LineSource(ret.val[3]) \in {"override", "default", "fallback"}

\* The prefix rule a is configured for "unavailable" in the HTTP family,
\* without an override, and HTTPStatus of ("unavailable", "") has returned
\* the built-in default.
C13_Witness ==
    /\ ret.op = "HTTPStatus" /\ ret.c = "unavailable" /\ ret.r = Empty
    /\ built.opts = << WithHTTPPrefix("unavailable", <<"a">>, HTTPPrefixVal(<<"a">>)) >>
    /\ ret.val = 503

\* The canonical form of a raw prefix, character by character: the
\* surrounding white space dropped, upper case folded, "/" written "." and
\* "-" written "_".
Capitals ==
    <<"A", "B", "C", "D", "E", "F", "G", "H", "I", "J", "K", "L", "M",
      "N", "O", "P", "Q", "R", "S", "T", "U", "V", "W", "X", "Y", "Z">>

Smalls ==
    <<"a", "b", "c", "d", "e", "f", "g", "h", "i", "j", "k", "l", "m",
      "n", "o", "p", "q", "r", "s", "t", "u", "v", "w", "x", "y", "z">>

Blanks == {" ", "\t", "\n", "\r", "\f", ""}

CanonChar(c) ==
    IF \E i \in DOMAIN Capitals : Capitals[i] = c
    THEN Smalls[CHOOSE i \in DOMAIN Capitals : Capitals[i] = c]
    ELSE CASE c = "/" -> "."
           [] c = "-" -> "_"
           [] OTHER   -> c

Canonical(raw) ==
    LET inked == { i \in 1..Len(raw) : raw[i] \notin Blanks }
        lo    == CHOOSE i \in inked : \A j \in inked : i <= j
        hi    == CHOOSE i \in inked : \A j \in inked : j <= i
    IN  IF inked = {} THEN Empty
        ELSE [i \in 1..(hi - lo + 1) |-> CanonChar(raw[lo + i - 1])]

\* The options with every prefix rule given in canonical form.
CanonicalOpts(opts) ==
    [i \in 1..Len(opts) |->
        IF IsPrefixOpt(opts[i])
        THEN [opts[i] EXCEPT !.prefix = Canonical(opts[i].prefix)]
        ELSE opts[i]]

\* The mapper built from the options given in canonical form.
CanonicalBuild(opts) ==
    New(InitHeap, CanonicalOpts(opts),
        CHOOSE o \in OrdersOf(CanonicalOpts(opts), "httpPrefixes") : TRUE,
        CHOOSE o \in OrdersOf(CanonicalOpts(opts), "grpcPrefixes") : TRUE)

\* The build n succeeds exactly when the build held in ret does, and then
\* its mapper answers every lookup as the mapper of the process does.
SameAnswers(n) ==
    /\ (ret.err = NilErr) <=> (n.err = NilErr)
    /\ ret.err = NilErr =>
           \A c \in LookupCodes, r \in Reasons :
               /\ Status(heap, mapper, c, r) = Status(n.heap, n.m, c, r)
               /\ Explain(heap, mapper, c, r) = Explain(n.heap, n.m, c, r)

\* C14: prefix rules are normalized at build time. New trims a raw prefix,
\* lower-cases it and writes "/" as "." and "-" as "_" before it validates
\* and inserts it: the build from raw prefixes succeeds exactly when the
\* build from the same rules in canonical form does, and its mapper
\* resolves and explains every (code, reason) as that one does.
C14_PrefixNormalized ==
    ret.op = "New" => SameAnswers(CanonicalBuild(ret.opts))

\* New was given the one rule "\tA/Z-9 " for "unavailable" and has returned a
\* mapper that resolves the reason a.z_9 through that rule.
C14_Witness ==
    /\ ret.op = "New" /\ ret.err = NilErr
    /\ ret.opts = << WithHTTPPrefix("unavailable", <<"\t", "A", "/", "Z", "-", "9", " ">>, 594) >>
    /\ HTTPStatus(heap, mapper, "unavailable", <<"a", ".", "z", "_", "9">>) = 594
    /\ HTTPStatus(heap, mapper, "unavailable", <<"a", ".", "b">>) = 503

\* A line of Explain is introduced by a tag when its text starts with the
\* tag followed by blanks.
IntroducedBy(line, tag) == line[1] \in {tag \o " ", tag \o "  "}

\* C15: Explain renders both transports. Whichever tier each family
\* resolves through, the second line of the text of Explain is introduced
\* by "http:" and the third by "grpc:".
C15_BothTransports ==
    ret.op = "Explain" =>
        /\ IntroducedBy(ret.val[2], "http:")
        /\ IntroducedBy(ret.val[3], "grpc:")

\* What the prefix rules of a code in a family give for a reason.
PrefixMatch(opts, family, c, r) ==
    Match(RulesTrie(RulesOf(opts, family, c), family), r)

\* The value a lookup has returned for a family, and whether it has
\* returned one for it.
Returned(family) ==
    IF ret.op = "Status"
    THEN (IF family = "HTTP" THEN ret.val.HTTP ELSE ret.val.GRPC)
    ELSE ret.val
ReturnedFor(family) ==
    \/ ret.op = "Status"
    \/ ret.op = "HTTPStatus" /\ family = "HTTP"
    \/ ret.op = "GRPCStatus" /\ family = "gRPC"

\* C16, as documented on WithHTTPOverride / WithGRPCOverride: an override
\* sits above the per-code default and below the prefix matches. When a
\* prefix rule for the code matches the reason, the value of the prefix
\* rule is returned rather than the override; without a match, the override
\* is returned rather than the default. The lookups consult the override
\* first: with a gRPC override 10 and the gRPC prefix rule a configured for
\* "unavailable", GRPCStatus of ("unavailable", a.b) returns 10.
C16_OverrideBelowPrefix ==
    \A family \in Families :
        ReturnedFor(family) =>
            LET ov == OptsAt(built.opts, KindOf(family, "Override"), ret.c)
                pm == PrefixMatch(built.opts, family, ret.c, ret.r)
            IN  /\ pm.found => Returned(family) = pm.val
                /\ (~pm.found /\ ov # {}) => Returned(family) = built.opts[Max(ov)].val

\* What a call of a mutator is to return, given what its receiver held:
\* the receiver's fields with the one the call names replaced.
Derived(call, was) ==
    CASE call.op = "WithReason"  -> [was EXCEPT !.Reason = call.r]
      [] call.op = "WithMessage" -> [was EXCEPT !.Message = call.msg]
      [] call.op = "WithDetail"  ->
             [was EXCEPT !.Details =
                 [x \in DOMAIN was.Details \cup {call.k} |->
                     IF x = call.k THEN call.v ELSE was.Details[x]]]
      [] call.op = "WithDetails" ->
             [was EXCEPT !.Details =
                 [x \in DOMAIN was.Details \cup DOMAIN call.kv |->
                     IF x \in DOMAIN call.kv THEN call.kv[x] ELSE was.Details[x]]]
      [] call.op = "WithCause"   ->
             IF call.err = NilCause THEN was ELSE [was EXCEPT !.Cause = call.err]

\* What E is to return: a fresh Error of the code and the message, taken
\* through the mutators its options name, in order.
RECURSIVE DerivedBy(_, _)
DerivedBy(opts, was) ==
    IF opts = <<>> THEN was
    ELSE DerivedBy(Tail(opts), Derived(opts[1], was))

Fresh(c, msg) ==
    [Code |-> c, Reason |-> Empty, Message |-> msg, Cause |-> NilCause,
     Details |-> EmptyMap]

\* C17: the mutators of Error are copy-on-write. After any sequence of
\* WithReason, WithMessage, WithDetail, WithDetails and WithCause calls on
\* the Error values held, every one of them, original or derived, still has
\* the fields and the key/value contents of Details it had when it was
\* made, so that no Details gains a key through a call made on another
\* error; the value a call returns is its receiver with the one field
\* the call names replaced; and the value E returns is a fresh Error taken
\* through the mutators of its options.
C17_CopyOnWrite ==
    /\ \A i \in 1..Len(errs) : View(heap, errs[i].ref) = errs[i].was
    /\ ret.op \in {"WithReason", "WithMessage", "WithDetail", "WithDetails", "WithCause"} =>
           errs[Len(errs)].was = Derived(ret, errs[ret.recv].was)
    /\ ret.op = "E" =>
           errs[Len(errs)].was = DerivedBy(ret.opts, Fresh(ret.c, ret.msg))

\* e1 = E(invalid, "bad").WithDetail("k1", 1) and e2 = e1.WithDetail("k2", 2)
\* were made: e2 holds both keys and e1 still holds k1 alone.
C17_Witness ==
    /\ Len(errs) = 3
    /\ ret = [op |-> "WithDetail", recv |-> 2, k |-> "k2", v |-> 2]
    /\ errs[2].was.Details = [x \in {"k1"} |-> 1]
    /\ DOMAIN View(heap, errs[2].ref).Details = {"k1"}
    /\ DOMAIN View(heap, errs[3].ref).Details = {"k1", "k2"}

\* What the mapper of the process resolves (c, r) to in one family.
Lookup(family, c, r) ==
    IF family = "HTTP" THEN HTTPStatus(heap, mapper, c, r)
    ELSE GRPCStatus(heap, mapper, c, r)

\* The line of Explain for one family.
ExplainFor(family, c, r) ==
    Explain(heap, mapper, c, r)[IF family = "HTTP" THEN 2 ELSE 3]

Min(S) == CHOOSE x \in S : \A y \in S : x <= y

\* The positions of the prefix rules of one family and code whose prefix
\* is the text p once in canonical form.
RulesAt(opts, family, c, p) ==
    { i \in OptsAt(opts, KindOf(family, "Prefix"), c) : Canonical(opts[i].prefix) = p }

\* The trie the mapper of the process holds for a family and code.
TrieFor(family, c) ==
    LET tm == IF family = "HTTP" THEN mapper.httpTrie ELSE mapper.grpcTrie
    IN  heap[MapGet(heap, tm, c)].t

\* C22: last write wins on the same key. Of the directives of one build
\* that set the default of a code in a family, the last one gives the
\* default that is resolved, and likewise for its override; of the prefix
\* rules of a code and family whose patterns normalize to the same text,
\* the last one gives the value the trie stores and resolves for that
\* pattern. Repeating a pattern is not an error of the build, and the node
\* keeps the pattern text of the first insertion.
C22_LastWriteWins ==
    (ret.op = "New" /\ ret.err = NilErr) =>
        \A family \in Families, c \in OptCodes :
            LET ov == OptsAt(ret.opts, KindOf(family, "Override"), c)
                df == OptsAt(ret.opts, KindOf(family, "Default"), c)
                pf == OptsAt(ret.opts, KindOf(family, "Prefix"), c)
            IN  /\ ov # {} =>
                       \A r \in Reasons : Lookup(family, c, r) = ret.opts[Max(ov)].val
                /\ (df # {} /\ ov = {}) =>
                       Lookup(family, c, Empty) = ret.opts[Max(df)].val
                /\ \A i \in pf :
                       LET p    == Canonical(ret.opts[i].prefix)
                           same == RulesAt(ret.opts, family, c, p)
                           node == TrieFor(family, c)[Split(p)]
                       IN  /\ node.hasVal
                           /\ node.val = ret.opts[Max(same)].val
                           /\ node.pattern = Canonical(ret.opts[Min(same)].prefix)
                           /\ (ov = {} /\ p \in Reasons) =>
                                  /\ Lookup(family, c, p) = ret.opts[Max(same)].val
                                  /\ LinePattern(ExplainFor(family, c, p)) = p
                                  /\ LineValue(ExplainFor(family, c, p))
                                         = ret.opts[Max(same)].val

\* New was given the rules "a" -> 591 and then "A" -> 592 for the HTTP
\* family of "unavailable": both normalize to a, the build has succeeded
\* and the reason a resolves to 592.
C22_Witness ==
    /\ ret.op = "New" /\ ret.err = NilErr
    /\ ret.opts = << WithHTTPPrefix("unavailable", <<"a">>, 591),
                     WithHTTPPrefix("unavailable", <<"A">>, 592) >>
    /\ Lookup("HTTP", "unavailable", <<"a">>) = 592
    /\ TrieFor("HTTP", "unavailable")[<< <<"a">> >>].pattern = <<"a">>

\* Two directives write the same key: the default or the override of the
\* same code in the same family, or prefix rules of the same code and family
\* whose patterns are the same text in canonical form.
SameKey(o1, o2) ==
    /\ o1.kind = o2.kind
    /\ o1.c = o2.c
    /\ IsPrefixOpt(o1) => Canonical(o1.prefix) = Canonical(o2.prefix)

\* The rearrangements of the positions of a directive sequence, and those
\* that keep directives of the same key in their order.
Rearrangements(opts) == Perms(1..Len(opts))
KeepsKeyOrder(opts, f) ==
    \A i, j \in 1..Len(opts) :
        (i < j /\ SameKey(opts[f[i]], opts[f[j]])) => f[i] < f[j]
Rearranged(opts, f) == [i \in 1..Len(opts) |-> opts[f[i]]]

\* The mapper built from the given options.
BuildOf(opts) ==
    New(InitHeap, opts,
        CHOOSE o \in OrdersOf(opts, "httpPrefixes") : TRUE,
        CHOOSE o \in OrdersOf(opts, "grpcPrefixes") : TRUE)

\* C23 as stated: the order of the directives never matters. Every
\* permutation of the sequence handed to New gives the same build outcome
\* and a mapper that resolves every (code, reason) identically.
C23_OrderNeverMatters ==
    ret.op = "New" =>
        \A f \in Rearrangements(ret.opts) :
            SameAnswers(BuildOf(Rearranged(ret.opts, f)))

\* C23: the order of the directives matters only between directives of the
\* same key. Every permutation of the sequence handed to New that keeps
\* the directives of each key in their order gives a build that succeeds
\* exactly when the original does and a mapper that resolves and explains
\* every (code, reason) identically; and every permutation whatsoever
\* succeeds exactly when the original does.
C23_OrderWithinKeyOnly ==
    ret.op = "New" =>
        \A f \in Rearrangements(ret.opts) :
            /\ KeepsKeyOrder(ret.opts, f) =>
                   SameAnswers(BuildOf(Rearranged(ret.opts, f)))
            /\ (ret.err = NilErr)
                   <=> (BuildOf(Rearranged(ret.opts, f)).err = NilErr)

\* New was given the rule a.* and then the rule a of the same code and
\* family; the sequence can be given the other way round, the keys being
\* different, and a.b resolves through a.*.
C23_Witness ==
    /\ ret.op = "New" /\ ret.err = NilErr
    /\ ret.opts = << WithGRPCPrefix("unavailable", <<"a", ".", "*">>, 3),
                     WithGRPCPrefix("unavailable", <<"a">>, 1) >>
    /\ \E f \in Rearrangements(ret.opts) :
           /\ KeepsKeyOrder(ret.opts, f)
           /\ Rearranged(ret.opts, f) # ret.opts
    /\ Lookup("gRPC", "unavailable", <<"a", ".", "b">>) = 3

\* The sequence with its i-th directive given twice in a row.
Repeated(opts, i) ==
    SubSeq(opts, 1, i) \o <<opts[i]>> \o SubSeq(opts, i + 1, Len(opts))

\* C24: build idempotence. A second build from the same directive sequence,
\* and a build from the sequence with one of its directives repeated (an
\* identical prefix rule with the same value included), succeed exactly
\* when the first build does and give a mapper that returns the same
\* HTTPStatus, GRPCStatus and Explain results for every (code, reason).
C24_BuildIdempotent ==
    ret.op = "New" =>
        /\ SameAnswers(BuildOf(ret.opts))
        /\ \A i \in 1..Len(ret.opts) :
               SameAnswers(BuildOf(Repeated(ret.opts, i)))

\* New was given the one rule a.* -> 593 for the HTTP family of
\* "unavailable"; the build from the rule given twice succeeds too, and
\* the reason a.b resolves to 593 through the pattern a.*.
C24_Witness ==
    /\ ret.op = "New" /\ ret.err = NilErr
    /\ ret.opts = << WithHTTPPrefix("unavailable", <<"a", ".", "*">>, 593) >>
    /\ BuildOf(Repeated(ret.opts, 1)).err = NilErr
    /\ Lookup("HTTP", "unavailable", <<"a", ".", "b">>) = 593
    /\ LinePattern(ExplainFor("HTTP", "unavailable", <<"a", ".", "b">>))
           = <<"a", ".", "*">>

\* C25: build failure is deterministic. Every run of New on the directive
\* sequence the process has built from has the outcome this build had:
\* it succeeds when this one did, and when this one failed it fails with
\* the error of this one, which names the same family, code and pattern,
\* whichever order the iterations over the rule maps take.
C25_FailureDeterministic ==
    ret.op = "New" =>
        \A ordH \in OrdersOf(ret.opts, "httpPrefixes"),
           ordG \in OrdersOf(ret.opts, "grpcPrefixes") :
            New(InitHeap, ret.opts, ordH, ordG).err = ret.err

\* The family a directive belongs to.
FamilyOf(o) ==
    IF o.kind \in {"HTTPDefault", "HTTPOverride", "HTTPPrefix"} THEN "HTTP" ELSE "gRPC"

\* The sequence without its i-th directive.
Without(opts, i) == SubSeq(opts, 1, i - 1) \o SubSeq(opts, i + 1, Len(opts))

\* What the build n resolves (c, r) to in one family, and its Explain line.
LookupIn(n, family, c, r) ==
    IF family = "HTTP" THEN HTTPStatus(n.heap, n.m, c, r)
    ELSE GRPCStatus(n.heap, n.m, c, r)
ExplainIn(n, family, c, r) ==
    Explain(n.heap, n.m, c, r)[IF family = "HTTP" THEN 2 ELSE 3]

\* The build n, made without the directive o, succeeds, and the mapper of
\* the process, made with o, resolves as n does every (code, reason) of
\* the family of o whose code is not that of o, and every (code, reason)
\* of the other family.
UntouchedBy(n, o) ==
    /\ n.err = NilErr
    /\ \A family \in Families, c \in LookupCodes, r \in Reasons :
           (family # FamilyOf(o) \/ c # o.c) =>
               /\ Lookup(family, c, r) = LookupIn(n, family, c, r)
               /\ ExplainFor(family, c, r) = ExplainIn(n, family, c, r)

\* C28: category and family isolation. Adding a default, an override or a
\* prefix directive for a code in one family to the directives of a build
\* changes the resolution of no (code, reason) with another code in that
\* family, and of no (code, reason) at all in the other family.
C28_Isolation ==
    (ret.op = "New" /\ ret.err = NilErr) =>
        \A i \in 1..Len(ret.opts) :
            UntouchedBy(BuildOf(Without(ret.opts, i)), ret.opts[i])

\* New was given an HTTP override for "custom" and an HTTP rule a for
\* "unavailable": the rule resolves (unavailable, a) in HTTP, the override
\* resolves "custom" in HTTP, and gRPC still answers from its defaults.
C28_Witness ==
    /\ ret.op = "New" /\ ret.err = NilErr
    /\ ret.opts = << WithHTTPOverride("custom", 418),
                     WithHTTPPrefix("unavailable", <<"a">>, 591) >>
    /\ Lookup("HTTP", "unavailable", <<"a">>) = 591
    /\ Lookup("HTTP", "custom", <<"a">>) = 418
    /\ Lookup("gRPC", "unavailable", <<"a">>) = 14
    /\ Lookup("gRPC", "custom", <<"a">>) = 13

\* The raw prefixes of the prefix rules among the options.
PrefixesOf(opts) == { opts[i].prefix : i \in { j \in 1..Len(opts) : IsPrefixOpt(opts[j]) } }

\* The trie accepts the text that normalizeAndValidatePrefix returns for
\* raw, whenever that function accepts raw.
AcceptedByBoth(raw) ==
    normalizeAndValidatePrefix(raw).err = NoErr =>
        ~Insert(TrieNew, normalizeAndValidatePrefix(raw).p, Zero).err

\* C30: the two pattern validators agree. Every prefix that
\* normalizeAndValidatePrefix accepts is accepted by Insert, for the raw
\* prefixes of the rules given to New and for the pattern texts of the
\* trie inputs; New therefore fails only with the error of the validation
\* step, never with "cannot insert ... prefix", and it fails exactly when
\* normalizeAndValidatePrefix rejects one of its rules.
C30_ValidatorsAgree ==
    ret.op = "New" =>
        /\ \A raw \in PrefixesOf(ret.opts) \cup Patterns : AcceptedByBoth(raw)
        /\ ret.err # NilErr => ret.err.kind = "invalid reason-prefix"
        /\ ret.err # NilErr <=>
               \E raw \in PrefixesOf(ret.opts) :
                   normalizeAndValidatePrefix(raw).err # NoErr

\* New was given the rules "\tA/Z-9 " and a.* for "unavailable", which the
\* validation step accepts, and has inserted both: the build succeeded
\* and the trie holds the patterns a.z_9 and a.*.
C30_Witness ==
    /\ ret.op = "New" /\ ret.err = NilErr
    /\ ret.opts = << WithHTTPPrefix("unavailable",
                                    <<"\t", "A", "/", "Z", "-", "9", " ">>, 594),
                     WithHTTPPrefix("unavailable", <<"a", ".", "*">>, 593) >>
    /\ TrieFor("HTTP", "unavailable")[<< <<"a">>, <<"z", "_", "9">> >>].hasVal
    /\ TrieFor("HTTP", "unavailable")[<< <<"a">>, Star >>].hasVal

\* What a call returns when it runs alone on the mapper.
Alone(op, c, r) ==
    CASE op = "HTTPStatus" -> << HTTPStatus(heap, mapper, c, r) >>
      [] op = "GRPCStatus" -> << GRPCStatus(heap, mapper, c, r) >>
      [] op = "Status"     -> << Status(heap, mapper, c, r).HTTP,
                                 Status(heap, mapper, c, r).GRPC >>
      [] op = "Explain"    -> Explain(heap, mapper, c, r)

\* C5: concurrent readers. Whatever the other goroutines are doing, a call
\* of HTTPStatus, GRPCStatus, Status or Explain that has reached its return
\* holds the result the same call gives alone, and no step of a call
\* changes the mapper or an object it reaches.
C5_ConcurrentReaders ==
    /\ [](\A i \in 1..NumReaders :
             readers[i].pc = "done" =>
                 readers[i].out = Alone(readers[i].op, readers[i].c, readers[i].r))
    /\ [][mapper' = mapper /\ heap' = heap]_vars

\* One goroutine has finished an Explain that reports a prefix hit for
\* "unavailable" while another is inside Match on the same trie, about to read
\* that its reason matched nothing.
C5_Witness ==
    \E i, j \in 1..NumReaders :
        /\ i # j
        /\ readers[i].pc = "done" /\ readers[i].op = "Explain"
        /\ readers[i].c = "unavailable" /\ readers[i].r = <<"a", ".", "b">>
        /\ LineSource(readers[i].out[2]) = "prefix"
        /\ readers[j].pc = "matched" /\ readers[j].c = "unavailable"
        /\ readers[j].r = <<"b">>

====
